---- MODULE Spec2Model ----
(***************************************************************************)
(* Relational-algebra execution core (src/src/query/relation.rs): the      *)
(* operator tree RelAlgebra, variable elimination, binding-index           *)
(* resolution, and the item sequences that the iterators of the nodes      *)
(* yield.  Positions are 0-based as in the source; a TLA+ sequence s holds *)
(* position i at s[i + 1].                                                 *)
(***************************************************************************)
EXTENDS Integers, Sequences, FiniteSets, TLC

VARIABLES ra, nops, phase, used, epoch, use_delta, out, cfg_debug_assertions

vars == <<ra, nops, phase, used, epoch, use_delta, out, cfg_debug_assertions>>

-----------------------------------------------------------------------------
(* Bounds of the model.                                                    *)

\* Number of constructor calls applied on top of the first leaf.
MaxOps == 2
\* Largest epoch handed to iter.
MaxEpoch == 2

-----------------------------------------------------------------------------
(* DataValue: <<kind, payload>>.  Null is the least value, Bot the         *)
(* greatest; a list holds integers.                                        *)

KNull == 0
KInt == 1
KList == 3
KBot == 9

Null == <<KNull, 0>>
Bot == <<KBot, 0>>
Int_(n) == <<KInt, n>>
List_(s) == <<KList, s>>

RECURSIVE SeqLess(_, _)
SeqLess(s, t) ==
  IF s = <<>> THEN t # <<>>
  ELSE IF t = <<>> THEN FALSE
  ELSE IF Head(s) # Head(t) THEN Head(s) < Head(t)
  ELSE SeqLess(Tail(s), Tail(t))

\* Ord for DataValue: by kind, then by payload.
ValLess(a, b) ==
  IF a[1] # b[1] THEN a[1] < b[1]
  ELSE IF a[1] = KInt THEN a[2] < b[2]
  ELSE IF a[1] = KList THEN SeqLess(a[2], b[2])
  ELSE FALSE

\* Ord for Tuple: lexicographic.
RECURSIVE TupleLess(_, _)
TupleLess(s, t) ==
  IF s = <<>> THEN t # <<>>
  ELSE IF t = <<>> THEN FALSE
  ELSE IF Head(s) # Head(t) THEN ValLess(Head(s), Head(t))
  ELSE TupleLess(Tail(s), Tail(t))

\* DataValue::get_entity_id: Some(id) for an integer, None otherwise.
NoEntity == -1
get_entity_id(v) == IF v[1] = KInt /\ v[2] >= 0 THEN v[2] ELSE NoEntity
\* EntityId::as_datavalue
as_datavalue(eid) == Int_(eid)
\* DataValue::get_list: the elements when the value is a list.
get_list(v) == [i \in 1..Len(v[2]) |-> Int_(v[2][i])]

-----------------------------------------------------------------------------
(* Sequence helpers.                                                       *)

RECURSIVE Flatten(_)
Flatten(ss) == IF ss = <<>> THEN <<>> ELSE Head(ss) \o Flatten(Tail(ss))

Range(s) == {s[i] : i \in 1..Len(s)}

RECURSIVE SelectIdx(_, _, _)
\* the elements of s whose 0-based position i (counted from base) satisfies keep
SelectIdx(s, base, drop) ==
  IF s = <<>> THEN <<>>
  ELSE (IF base \in drop THEN <<>> ELSE <<Head(s)>>)
       \o SelectIdx(Tail(s), base + 1, drop)

\* The elements of a finite set of tuples in ascending order (a key-ordered scan).
RECURSIVE SortTuples(_)
SortTuples(S) ==
  IF S = {} THEN <<>>
  ELSE LET m == CHOOSE x \in S : \A y \in S : y = x \/ TupleLess(x, y)
       IN <<m>> \o SortTuples(S \ {m})

\* Position (0-based) that the map built by enumerate().map(|(a, b)| (b, a))
\* gives a symbol: the last position holding it; -1 when absent.
NotFound == -1
IndexOf(bindings, s) ==
  IF s \in Range(bindings)
  THEN (CHOOSE i \in 1..Len(bindings) :
          bindings[i] = s /\ \A j \in (i + 1)..Len(bindings) : bindings[j] # s) - 1
  ELSE NotFound

-----------------------------------------------------------------------------
(* Items of a TupleIter: Ok(tuple), Err(error), or the panic that ends the *)
(* whole evaluation.                                                       *)

Ok(t) == [k |-> "ok", t |-> t, e |-> <<>>]
Err(e) == [k |-> "err", t |-> <<>>, e |-> e]
Panic == [k |-> "panic", t |-> <<>>, e |-> <<>>]

\* A panic unwinds: nothing is yielded after it.
RECURSIVE CutPanic(_)
CutPanic(items) ==
  IF items = <<>> THEN <<>>
  ELSE IF Head(items).k = "panic" THEN <<Panic>>
  ELSE <<Head(items)>> \o CutPanic(Tail(items))

\* eliminate_from_tuple
eliminate_from_tuple(ret, eliminate_indices) ==
  IF eliminate_indices # {} THEN SelectIdx(ret, 0, eliminate_indices) ELSE ret

\* get_eliminate_indices
get_eliminate_indices(bindings, eliminate) ==
  {idx \in 0..(Len(bindings) - 1) : bindings[idx + 1] \in eliminate}

-----------------------------------------------------------------------------
(* Expr, the expression evaluator consumed by the operators                *)
(* (crate::data::expr).  A term is a variable, carrying the tuple position *)
(* that fill_binding_indices resolved it to, or a constant.  An expression *)
(* is a bare term ("val") or a comparison of two terms.                    *)

Unresolved == -1
Var(sym) == [k |-> "var", sym |-> sym, idx |-> Unresolved, val |-> Null]
Const(v) == [k |-> "const", sym |-> "", idx |-> Unresolved, val |-> v]
Val(a) == [op |-> "val", a |-> a, b |-> Const(Null)]
Cmp(op, a, b) == [op |-> op, a |-> a, b |-> b]

Terms(e) == {e.a, e.b}

\* Expr::bindings
expr_bindings(e) == {tm.sym : tm \in {x \in Terms(e) : x.k = "var"}}

term_fill(tm, bindings) ==
  IF tm.k = "var" THEN [tm EXCEPT !.idx = IndexOf(bindings, tm.sym)] ELSE tm

term_fill_ok(tm, bindings) == tm.k = "var" => tm.sym \in Range(bindings)

\* Expr::fill_binding_indices: fails when a variable is not in the map.  The
\* expression is filled in place, argument by argument, up to the failure
expr_fill_ok(e, bindings) == expr_bindings(e) \subseteq Range(bindings)
expr_fill(e, bindings) ==
  IF ~term_fill_ok(e.a, bindings) THEN e
  ELSE IF ~term_fill_ok(e.b, bindings) THEN [e EXCEPT !.a = term_fill(e.a, bindings)]
  ELSE [e EXCEPT !.a = term_fill(e.a, bindings), !.b = term_fill(e.b, bindings)]

\* for e in filters.iter_mut() { e.fill_binding_indices(..)?; }: the
\* expressions before the first failure are filled, those after it are not
filters_fill_ok(fs, bindings) == \A i \in 1..Len(fs) : expr_fill_ok(fs[i], bindings)
filters_fill(fs, bindings) ==
  [i \in 1..Len(fs) |->
     IF \A k \in 1..(i - 1) : expr_fill_ok(fs[k], bindings)
     THEN expr_fill(fs[i], bindings) ELSE fs[i]]

\* The value of a term on a tuple: [ok, v].  An unresolved variable and a
\* position beyond the tuple are evaluation errors.
term_eval(tm, t) ==
  IF tm.k = "const" THEN [ok |-> TRUE, v |-> tm.val]
  ELSE IF tm.idx = Unresolved \/ tm.idx >= Len(t) THEN [ok |-> FALSE, v |-> Null]
  ELSE [ok |-> TRUE, v |-> t[tm.idx + 1]]

ErrEval == <<"eval">>

\* Expr::eval: [ok, v]
expr_eval(e, t) ==
  LET a == term_eval(e.a, t)
      b == term_eval(e.b, t)
  IN IF e.op = "val" THEN a
     ELSE IF ~a.ok \/ ~b.ok THEN [ok |-> FALSE, v |-> Null]
     ELSE IF e.op = "eq" THEN [ok |-> TRUE, v |-> Int_(IF a.v = b.v THEN 1 ELSE 0)]
     ELSE IF a.v[1] # KInt \/ b.v[1] # KInt THEN [ok |-> FALSE, v |-> Null]
     ELSE IF e.op = "gt" THEN [ok |-> TRUE, v |-> Int_(IF a.v[2] > b.v[2] THEN 1 ELSE 0)]
     ELSE [ok |-> TRUE, v |-> Int_(IF a.v[2] < b.v[2] THEN 1 ELSE 0)]

\* Expr::eval_pred: "true", "false" or "err"
eval_pred(e, t) ==
  LET r == expr_eval(e, t)
  IN IF ~r.ok \/ e.op = "val" THEN "err"
     ELSE IF r.v = Int_(1) THEN "true" ELSE "false"

\* The outcome of a predicate list on a tuple, in order: the first false
\* drops the tuple, the first error is returned.
RECURSIVE preds_on(_, _)
preds_on(ps, t) ==
  IF ps = <<>> THEN "true"
  ELSE LET r == eval_pred(Head(ps), t)
       IN IF r = "true" THEN preds_on(Tail(ps), t) ELSE r

-----------------------------------------------------------------------------
(* The operator tree.                                                      *)

\* RelAlgebra::unit / InlineFixedRA::unit
unit == [t |-> "Fixed", bindings |-> <<>>, data |-> << <<>> >>, to_eliminate |-> {}]
\* RelAlgebra::is_unit
is_unit(r) == r.t = "Fixed" /\ r.bindings = <<>> /\ Len(r.data) = 1
\* InlineFixedRA
fixed(bindings, data) ==
  [t |-> "Fixed", bindings |-> bindings, data |-> data, to_eliminate |-> {}]
\* RelAlgebra::triple
triple(attr, vld, e_binding, v_binding, span) ==
  [t |-> "Triple", attr |-> attr, vld |-> vld, bindings |-> <<e_binding, v_binding>>,
   filters |-> <<>>, span |-> span]
\* RelAlgebra::derived
derived(bindings, storage) ==
  [t |-> "Derived", bindings |-> bindings, storage |-> storage, filters |-> <<>>]
\* RelAlgebra::relation
relation(bindings, storage) ==
  [t |-> "Relation", bindings |-> bindings, storage |-> storage, filters |-> <<>>]
\* RelAlgebra::reorder
reorder(self, new_order) == [t |-> "Reorder", relation |-> self, new_order |-> new_order]
\* RelAlgebra::filter
filter(self, f) == [t |-> "Filter", parent |-> self, pred |-> <<f>>, to_eliminate |-> {}]
\* RelAlgebra::unify
unify(self, binding, expr, is_multi, span) ==
  [t |-> "Unification", parent |-> self, binding |-> binding, expr |-> expr,
   is_multi |-> is_multi, to_eliminate |-> {}, span |-> span]
\* RelAlgebra::join
join(self, right, left_keys, right_keys) ==
  [t |-> "Join", left |-> self, right |-> right, left_keys |-> left_keys,
   right_keys |-> right_keys, to_eliminate |-> {}]
\* RelAlgebra::neg_join
neg_join(self, right, left_keys, right_keys) ==
  [t |-> "NegJoin", left |-> self, right |-> right, left_keys |-> left_keys,
   right_keys |-> right_keys, to_eliminate |-> {}]
\* RelAlgebra::cartesian_join
cartesian_join(self, right) == join(self, right, <<>>, <<>>)

\* RelAlgebra::eliminate_set, an Option: NoSet stands for None
NoSet == [some |-> FALSE, set |-> {}]
eliminate_set(r) ==
  IF r.t \in {"Fixed", "Join", "Filter", "NegJoin", "Unification"}
  THEN [some |-> TRUE, set |-> r.to_eliminate]
  ELSE NoSet

\* What a call that reads bindings gives: the Vec<Symbol> it returns, or the
\* panic of the debug assertion of an InnerJoin::bindings it has called
Bindings(ret) == [panic |-> FALSE, ret |-> ret]
BindingsPanic == [panic |-> TRUE, ret |-> <<>>]

RECURSIVE bindings_before_eliminate(_, _)
\* RelAlgebra::bindings_after_eliminate, in a build with (debug_assertions =
\* TRUE, the dev and test profiles) or without (FALSE, the release profile)
\* debug assertions
bindings_after_eliminate(r, debug_assertions) ==
  LET after(b) ==
        IF ~b.panic /\ eliminate_set(r).some
        THEN Bindings(SelectSeq(b.ret, LAMBDA kw : kw \notin eliminate_set(r).set))
        ELSE b
  IN after(bindings_before_eliminate(r, debug_assertions))

\* InnerJoin::bindings that lists the right keys once more at the end
join_bindings_keys_again(j) ==
  bindings_after_eliminate(j.left, FALSE).ret
  \o bindings_after_eliminate(j.right, FALSE).ret \o j.right_keys

\* InnerJoin::bindings: the list ret as it stands before debug_assert_eq!,
\* where no assertion below the join has fired
join_bindings_ret(j) ==
  bindings_after_eliminate(j.left, FALSE).ret \o bindings_after_eliminate(j.right, FALSE).ret

\* InnerJoin::bindings: the children's bindings are read first, then
\* debug_assert_eq! panics when ret holds a symbol twice
join_bindings(j, debug_assertions) ==
  LET joined(l, r) ==
        IF l.panic \/ r.panic THEN BindingsPanic
        ELSE IF debug_assertions /\ Len(l.ret \o r.ret) # Cardinality(Range(l.ret \o r.ret))
        THEN BindingsPanic
        ELSE Bindings(l.ret \o r.ret)
  IN joined(bindings_after_eliminate(j.left, debug_assertions),
            bindings_after_eliminate(j.right, debug_assertions))

\* RelAlgebra::bindings_before_eliminate
bindings_before_eliminate(r, debug_assertions) ==
  LET appended(p) == IF p.panic THEN BindingsPanic ELSE Bindings(Append(p.ret, r.binding))
  IN CASE r.t \in {"Fixed", "Triple", "Derived", "Relation"} -> Bindings(r.bindings)
       [] r.t = "Join" -> join_bindings(r, debug_assertions)
       [] r.t = "Reorder" -> Bindings(r.new_order)
       [] r.t = "Filter" -> bindings_after_eliminate(r.parent, debug_assertions)
       [] r.t = "NegJoin" -> bindings_after_eliminate(r.left, debug_assertions)
       [] r.t = "Unification" ->
            appended(bindings_after_eliminate(r.parent, debug_assertions))

\* The symbols of a predicate list
filters_bindings(fs) == UNION {expr_bindings(fs[i]) : i \in 1..Len(fs)}

-----------------------------------------------------------------------------
(* Elimination of temporary variables.  Each operator returns [panic, r]:  *)
(* panic is TRUE when a debug assertion fired during the call, and r is    *)
(* the tree as the call left it: marked up to the panic.                   *)

Eliminated(r) == [panic |-> FALSE, r |-> r]
EliminatePanic(r) == [panic |-> TRUE, r |-> r]

\* for binding in bindings { if !used.contains(&binding) { insert } }
mark_unused(r, bindings, u) ==
  [r EXCEPT !.to_eliminate = @ \cup {b \in Range(bindings) : b \notin u}]

RECURSIVE eliminate_temp_vars(_, _, _)
\* InlineFixedRA::do_eliminate_temp_vars
fixed_do_eliminate_temp_vars(r, u) == mark_unused(r, r.bindings, u)

\* UnificationRA::do_eliminate_temp_vars
unification_do_eliminate_temp_vars(r, u, debug_assertions) ==
  LET b == bindings_before_eliminate(r.parent, debug_assertions)
      p == eliminate_temp_vars(r.parent, u \cup expr_bindings(r.expr), debug_assertions)
  IN IF b.panic THEN EliminatePanic(r)
     ELSE [panic |-> p.panic, r |-> [mark_unused(r, b.ret, u) EXCEPT !.parent = p.r]]

\* FilteredRA::do_eliminate_temp_vars that marks nothing of its own
filtered_marks_nothing(r, u, debug_assertions) ==
  LET b == bindings_before_eliminate(r.parent, debug_assertions)
      p == eliminate_temp_vars(r.parent, u \cup filters_bindings(r.pred), debug_assertions)
  IN IF b.panic THEN EliminatePanic(r)
     ELSE [panic |-> p.panic, r |-> [r EXCEPT !.parent = p.r]]

\* FilteredRA::do_eliminate_temp_vars
filtered_do_eliminate_temp_vars(r, u, debug_assertions) ==
  LET b == bindings_before_eliminate(r.parent, debug_assertions)
      p == eliminate_temp_vars(r.parent, u \cup filters_bindings(r.pred), debug_assertions)
  IN IF b.panic THEN EliminatePanic(r)
     ELSE [panic |-> p.panic, r |-> [mark_unused(r, b.ret, u) EXCEPT !.parent = p.r]]

\* NegJoin::do_eliminate_temp_vars that hands used alone to the left child,
\* without the left keys
negjoin_forgets_left_keys(r, u, debug_assertions) ==
  LET b == bindings_after_eliminate(r.left, debug_assertions)
      l == eliminate_temp_vars(r.left, u, debug_assertions)
  IN IF b.panic THEN EliminatePanic(r)
     ELSE [panic |-> l.panic, r |-> [mark_unused(r, b.ret, u) EXCEPT !.left = l.r]]

\* NegJoin::do_eliminate_temp_vars: the right child is neither read nor
\* visited
negjoin_do_eliminate_temp_vars(r, u, debug_assertions) ==
  LET b == bindings_after_eliminate(r.left, debug_assertions)
      l == eliminate_temp_vars(r.left, u \cup Range(r.left_keys), debug_assertions)
  IN IF b.panic THEN EliminatePanic(r)
     ELSE [panic |-> l.panic, r |-> [mark_unused(r, b.ret, u) EXCEPT !.left = l.r]]

\* The symbols of the filters pushed down to the right operand of a join
pushed_bindings(r) ==
  IF r.right.t \in {"Triple", "Derived"} THEN filters_bindings(r.right.filters) ELSE {}

\* The descent of InnerJoin::do_eliminate_temp_vars from the join as it has
\* marked itself: the left child with the set left, and where that returns,
\* the right child with the set right
innerjoin_eliminate_children(marked, left, right, debug_assertions) ==
  LET l == eliminate_temp_vars(marked.left, left, debug_assertions)
      rr == eliminate_temp_vars(marked.right, right, debug_assertions)
  IN IF l.panic THEN EliminatePanic([marked EXCEPT !.left = l.r])
     ELSE [panic |-> rr.panic, r |-> [marked EXCEPT !.left = l.r, !.right = rr.r]]

\* InnerJoin::do_eliminate_temp_vars that hands the sets to its children and
\* marks nothing of its own
innerjoin_eliminates_children_only(r, u, debug_assertions) ==
  IF join_bindings(r, debug_assertions).panic THEN EliminatePanic(r)
  ELSE innerjoin_eliminate_children(
         r, u \cup Range(r.left_keys) \cup pushed_bindings(r), u \cup Range(r.right_keys),
         debug_assertions)

\* InnerJoin::do_eliminate_temp_vars that hands used alone to its children,
\* without the join keys
innerjoin_forgets_keys(r, u, debug_assertions) ==
  LET b == join_bindings(r, debug_assertions)
  IN IF b.panic THEN EliminatePanic(r)
     ELSE innerjoin_eliminate_children(mark_unused(r, b.ret, u), u, u, debug_assertions)

\* InnerJoin::do_eliminate_temp_vars that marks the join keys whether they
\* are used or not
innerjoin_eliminates_keys(r, u, debug_assertions) ==
  LET b == join_bindings(r, debug_assertions)
  IN IF b.panic THEN EliminatePanic(r)
     ELSE innerjoin_eliminate_children(
            mark_unused(r, b.ret, u \ Range(r.left_keys \o r.right_keys)),
            u \cup Range(r.left_keys) \cup pushed_bindings(r), u \cup Range(r.right_keys),
            debug_assertions)

\* InnerJoin::do_eliminate_temp_vars
innerjoin_do_eliminate_temp_vars(r, u, debug_assertions) ==
  LET b == join_bindings(r, debug_assertions)
  IN IF b.panic THEN EliminatePanic(r)
     ELSE innerjoin_eliminate_children(
            mark_unused(r, b.ret, u),
            u \cup Range(r.left_keys) \cup pushed_bindings(r), u \cup Range(r.right_keys),
            debug_assertions)

\* RelAlgebra::eliminate_temp_vars
eliminate_temp_vars(r, u, debug_assertions) ==
  CASE r.t = "Fixed" -> Eliminated(fixed_do_eliminate_temp_vars(r, u))
    [] r.t \in {"Triple", "Derived", "Relation"} -> Eliminated(r)
    [] r.t = "Join" -> innerjoin_do_eliminate_temp_vars(r, u, debug_assertions)
    [] r.t = "Reorder" ->
         LET c == eliminate_temp_vars(r.relation, u, debug_assertions)
         IN [panic |-> c.panic, r |-> [r EXCEPT !.relation = c.r]]
    [] r.t = "Filter" -> filtered_do_eliminate_temp_vars(r, u, debug_assertions)
    [] r.t = "NegJoin" -> negjoin_do_eliminate_temp_vars(r, u, debug_assertions)
    [] r.t = "Unification" -> unification_do_eliminate_temp_vars(r, u, debug_assertions)

-----------------------------------------------------------------------------
(* Binding-index resolution.  Each operator returns [ok, panic, r]: ok is  *)
(* FALSE when some fill_binding_indices call returned an error, panic is   *)
(* TRUE when a debug assertion fired, and r is the tree as the call left   *)
(* it: filled in place up to the failure.                                  *)

Filled(r) == [ok |-> TRUE, panic |-> FALSE, r |-> r]
FillErr(r) == [ok |-> FALSE, panic |-> FALSE, r |-> r]
FillPanic(r) == [ok |-> FALSE, panic |-> TRUE, r |-> r]

\* The Result<()> of the loop over a filter list, and the list as it leaves it
FillResult(ok, r) == IF ok THEN Filled(r) ELSE FillErr(r)

\* TripleRA / DerivedRA / RelationRA ::fill_binding_indices
leaf_fill_binding_indices(r) ==
  FillResult(filters_fill_ok(r.filters, r.bindings),
             [r EXCEPT !.filters = filters_fill(@, r.bindings)])

\* TripleRA / DerivedRA ::fill_join_binding_indices
leaf_fill_join_binding_indices(r, bindings) ==
  FillResult(filters_fill_ok(r.filters, bindings),
             [r EXCEPT !.filters = filters_fill(@, bindings)])

RECURSIVE fill_normal_binding_indices(_, _)
\* RelAlgebra::fill_join_binding_indices
fill_join_binding_indices(r, bindings, debug_assertions) ==
  IF r.t \in {"Triple", "Derived"} THEN leaf_fill_join_binding_indices(r, bindings)
  ELSE fill_normal_binding_indices(r, debug_assertions)

\* FilteredRA::fill_binding_indices, after the parent's pass
filtered_fill_binding_indices(r, debug_assertions) ==
  LET p == fill_normal_binding_indices(r.parent, debug_assertions)
      r1 == [r EXCEPT !.parent = p.r]
      pb == bindings_after_eliminate(p.r, debug_assertions)
  IN IF ~p.ok THEN [p EXCEPT !.r = r1]
     ELSE IF pb.panic THEN FillPanic(r1)
     ELSE FillResult(filters_fill_ok(r.pred, pb.ret),
                     [r1 EXCEPT !.pred = filters_fill(@, pb.ret)])

\* UnificationRA::fill_binding_indices, after the parent's pass
unification_fill_binding_indices(r, debug_assertions) ==
  LET p == fill_normal_binding_indices(r.parent, debug_assertions)
      r1 == [r EXCEPT !.parent = p.r]
      pb == bindings_after_eliminate(p.r, debug_assertions)
  IN IF ~p.ok THEN [p EXCEPT !.r = r1]
     ELSE IF pb.panic THEN FillPanic(r1)
     ELSE FillResult(expr_fill_ok(r.expr, pb.ret), [r1 EXCEPT !.expr = expr_fill(@, pb.ret)])

\* RelAlgebra::fill_normal_binding_indices
fill_normal_binding_indices(r, debug_assertions) ==
  CASE r.t = "Fixed" -> Filled(r)
    [] r.t \in {"Triple", "Derived", "Relation"} -> leaf_fill_binding_indices(r)
    [] r.t = "Reorder" ->
         LET c == fill_normal_binding_indices(r.relation, debug_assertions)
         IN [c EXCEPT !.r = [r EXCEPT !.relation = c.r]]
    [] r.t = "Filter" -> filtered_fill_binding_indices(r, debug_assertions)
    [] r.t = "Unification" -> unification_fill_binding_indices(r, debug_assertions)
    [] r.t = "NegJoin" ->
         LET l == fill_normal_binding_indices(r.left, debug_assertions)
         IN [l EXCEPT !.r = [r EXCEPT !.left = l.r]]
    [] r.t = "Join" ->
         LET l == fill_normal_binding_indices(r.left, debug_assertions)
             r1 == [r EXCEPT !.left = l.r]
             bindings == bindings_before_eliminate(r1, debug_assertions)
             rr == fill_join_binding_indices(r1.right, bindings.ret, debug_assertions)
         IN IF ~l.ok THEN [l EXCEPT !.r = r1]
            ELSE IF bindings.panic THEN FillPanic(r1)
            ELSE [rr EXCEPT !.r = [r1 EXCEPT !.right = rr.r]]

\* RelAlgebra::get_filters: the node whose filter list the handle refers to
\* is reached by descending right of joins; HasFilters says a handle exists.
RECURSIVE HasFilters(_)
HasFilters(r) ==
  CASE r.t \in {"Triple", "Derived", "Filter"} -> TRUE
    [] r.t = "Join" -> HasFilters(r.right)
    [] OTHER -> FALSE

RECURSIVE push_filter(_, _)
\* get_filters().push(f)
push_filter(r, f) ==
  CASE r.t \in {"Triple", "Derived"} -> [r EXCEPT !.filters = Append(@, f)]
    [] r.t = "Filter" -> [r EXCEPT !.pred = Append(@, f)]
    [] r.t = "Join" -> [r EXCEPT !.right = push_filter(@, f)]
    [] OTHER -> r

-----------------------------------------------------------------------------
(* Bound extraction (crate::data::expr): the range a filter list admits    *)
(* for a column.  Null is "unbounded below", Bot "unbounded above".        *)

ValMax(a, b) == IF ValLess(a, b) THEN b ELSE a
ValMin(a, b) == IF ValLess(a, b) THEN a ELSE b

\* Expr::extract_bound: the range that one filter admits for the symbol
extract_bound(e, sym) ==
  LET lo(v) == [lower |-> v, upper |-> Bot]
      hi(v) == [lower |-> Null, upper |-> v]
      any == [lower |-> Null, upper |-> Bot]
  IN IF e.a.k = "var" /\ e.a.sym = sym /\ e.b.k = "const"
     THEN CASE e.op = "gt" -> lo(e.b.val)
            [] e.op = "lt" -> hi(e.b.val)
            [] e.op = "eq" -> [lower |-> e.b.val, upper |-> e.b.val]
            [] OTHER -> any
     ELSE IF e.b.k = "var" /\ e.b.sym = sym /\ e.a.k = "const"
     THEN CASE e.op = "gt" -> hi(e.a.val)
            [] e.op = "lt" -> lo(e.a.val)
            [] e.op = "eq" -> [lower |-> e.a.val, upper |-> e.a.val]
            [] OTHER -> any
     ELSE any

RECURSIVE merged_bound(_, _)
\* ValueRange::merge over a filter list
merged_bound(fs, sym) ==
  IF fs = <<>> THEN [lower |-> Null, upper |-> Bot]
  ELSE LET h == extract_bound(Head(fs), sym)
           r == merged_bound(Tail(fs), sym)
       IN [lower |-> ValMax(h.lower, r.lower), upper |-> ValMin(h.upper, r.upper)]

\* compute_bounds: per-column lower and upper bounds
compute_bounds(fs, syms) ==
  [ok |-> TRUE,
   l |-> [i \in 1..Len(syms) |-> merged_bound(fs, syms[i]).lower],
   u |-> [i \in 1..Len(syms) |-> merged_bound(fs, syms[i]).upper]]

\* compute_single_bound: [some, l, u]; none when the range is open
compute_single_bound(fs, sym) ==
  LET b == merged_bound(fs, sym)
  IN [some |-> ~(b.lower = Null /\ b.upper = Bot), l |-> b.lower, u |-> b.upper]

\* Expr::eval_bound on one term: a variable whose position lies inside the
\* tuple becomes that value
term_eval_bound(tm, t) ==
  IF tm.k = "var" /\ tm.idx # Unresolved /\ tm.idx < Len(t)
  THEN Const(t[tm.idx + 1]) ELSE tm

\* Expr::eval_bound: [ok, panic, e]; an unresolved position panics, and a
\* comparison whose two arguments became constants is evaluated (and may fail)
eval_bound(e, t) ==
  LET a == term_eval_bound(e.a, t)
      b == term_eval_bound(e.b, t)
      r == expr_eval([e EXCEPT !.a = a, !.b = b], t)
      unres == \E tm \in Terms(e) : tm.k = "var" /\ tm.idx = Unresolved
  IN IF unres THEN [ok |-> FALSE, panic |-> TRUE, e |-> e]
     ELSE IF e.op = "val" THEN [ok |-> TRUE, panic |-> FALSE, e |-> Val(a)]
     ELSE IF a.k = "const" /\ b.k = "const"
     THEN [ok |-> r.ok, panic |-> FALSE, e |-> Val(Const(r.v))]
     ELSE [ok |-> TRUE, panic |-> FALSE, e |-> [e EXCEPT !.a = a, !.b = b]]

-----------------------------------------------------------------------------
(* Storage consumed through SessionTx.  An attribute's triples are         *)
(* [e, v, since]; a history-keeping attribute shows at validity vld the    *)
(* triples with since <= vld, any other attribute shows all its triples.   *)

\* The attributes of the catalog: Attribute {id, with_history, val_type, indexing}
Attr(id, with_history, is_ref, should_index) ==
  [id |-> id, with_history |-> with_history, is_ref |-> is_ref,
   should_index |-> should_index]

\* The triples stored for every attribute
Triples ==
  {[e |-> 1, v |-> 1, since |-> 0], [e |-> 1, v |-> 2, since |-> 2],
   [e |-> 2, v |-> 2, since |-> 0], [e |-> 3, v |-> 1, since |-> 2]}

\* Triples that the plain scans of the attribute return
CurrentTriples(attr) == Triples
\* Triples that the _before_ scans of the attribute return at vld
TriplesBefore(attr, vld) == {tr \in Triples : tr.since <= vld}
\* The triples of the attribute visible at vld
VisibleTriples(attr, vld) ==
  IF attr.with_history THEN TriplesBefore(attr, vld) ELSE CurrentTriples(attr)

EV(S) == SortTuples({<<Int_(tr.e), Int_(tr.v)>> : tr \in S})
VE(S) == SortTuples({<<Int_(tr.v), Int_(tr.e)>> : tr \in S})

\* SessionTx::triple_a_scan / triple_a_before_scan: (e, v) pairs in AEV order
triple_a_scan(attr) == EV(CurrentTriples(attr))
triple_a_before_scan(attr, vld) == EV(TriplesBefore(attr, vld))
\* SessionTx::triple_ae_scan / triple_ae_before_scan
triple_ae_scan(attr, eid) == EV({tr \in CurrentTriples(attr) : tr.e = eid})
triple_ae_before_scan(attr, eid, vld) == EV({tr \in TriplesBefore(attr, vld) : tr.e = eid})
\* SessionTx::triple_ae_range_scan / triple_ae_range_before_scan
InRange(v, l, u) == ~ValLess(v, l) /\ ~ValLess(u, v)
triple_ae_range_scan(attr, eid, l, u) ==
  EV({tr \in CurrentTriples(attr) : tr.e = eid /\ InRange(Int_(tr.v), l, u)})
triple_ae_range_before_scan(attr, eid, l, u, vld) ==
  EV({tr \in TriplesBefore(attr, vld) : tr.e = eid /\ InRange(Int_(tr.v), l, u)})
\* SessionTx::triple_av_scan / triple_av_before_scan: (v, e) pairs in AVE order
triple_av_scan(attr, val) == VE({tr \in CurrentTriples(attr) : Int_(tr.v) = val})
triple_av_before_scan(attr, val, vld) ==
  VE({tr \in TriplesBefore(attr, vld) : Int_(tr.v) = val})
\* SessionTx::triple_av_range_scan / triple_av_range_before_scan
triple_av_range_scan(attr, l, u) ==
  VE({tr \in CurrentTriples(attr) : InRange(Int_(tr.v), l, u)})
triple_av_range_before_scan(attr, l, u, vld) ==
  VE({tr \in TriplesBefore(attr, vld) : InRange(Int_(tr.v), l, u)})
\* SessionTx::triple_vref_a_scan / triple_vref_a_before_scan: (v, e) pairs
triple_vref_a_scan(v_eid, attr) == VE({tr \in CurrentTriples(attr) : tr.v = v_eid})
triple_vref_a_before_scan(v_eid, attr, vld) ==
  VE({tr \in TriplesBefore(attr, vld) : tr.v = v_eid})
\* SessionTx::aev_exists
aev_exists(attr, eid, v, vld) ==
  \E tr \in VisibleTriples(attr, vld) : tr.e = eid /\ Int_(tr.v) = v

\* The rows of a derived store (store 1 is R, any other S) at an epoch:
\* epoch 0 is the accumulated relation, epoch 1 the latest delta
DerivedRows(storage, ep) ==
  IF storage = 1
  THEN (IF ep = 0 THEN {<<Int_(1), Int_(1)>>, <<Int_(1), Int_(2)>>, <<Int_(2), Int_(2)>>}
        ELSE IF ep = 1 THEN {<<Int_(2), Int_(2)>>}
        ELSE {})
  ELSE (IF ep = 0 THEN {<<Int_(1), Int_(1)>>, <<Int_(1), Int_(2)>>, <<Int_(2), Int_(1)>>}
        ELSE IF ep = 1 THEN {<<Int_(2), Int_(1)>>}
        ELSE {})

IsPrefix(p, row) == Len(p) <= Len(row) /\ SubSeq(row, 1, Len(p)) = p
TupleLeq(s, t) == s = t \/ TupleLess(s, t)

\* DerivedRelStore::scan_all_for_epoch
scan_all_for_epoch(storage, ep) == SortTuples(DerivedRows(storage, ep))
\* DerivedRelStore::scan_prefix_for_epoch
scan_prefix_for_epoch(storage, prefix, ep) ==
  SortTuples({r \in DerivedRows(storage, ep) : IsPrefix(prefix, r)})
\* DerivedRelStore::scan_bounded_prefix_for_epoch: the key range from
\* prefix ++ lower to prefix ++ upper ++ [Bot]
scan_bounded_prefix_for_epoch(storage, prefix, l, u, ep) ==
  SortTuples({r \in DerivedRows(storage, ep) :
                TupleLeq(prefix \o l, r) /\ TupleLeq(r, (prefix \o u) \o <<Bot>>)})
\* DerivedRelStore::scan_prefix: the accumulated relation
derived_scan_prefix(storage, prefix) == scan_prefix_for_epoch(storage, prefix, 0)

\* The stored relation T: entity ids with and without triples, and rows
\* whose first or second column is no entity id
StoreT == 3
RowsT ==
  {<<Null, List_(<<1, 2>>)>>, <<Int_(1), Int_(2)>>, <<Int_(2), List_(<<1, 2>>)>>,
   <<Int_(3), Int_(1)>>, <<Int_(4), Int_(1)>>}
\* The stored relation W, of three columns
StoreW == 4
RowsW ==
  {<<Int_(1), Int_(2), Int_(1)>>, <<Int_(1), Int_(2), Int_(2)>>, <<Int_(2), Int_(1), Int_(1)>>,
   <<Int_(2), Int_(2), Int_(3)>>, <<Int_(3), Int_(1), Int_(2)>>}
\* The rows of a stored relation
RelationRows(storage) ==
  IF storage = StoreT THEN RowsT
  ELSE IF storage = StoreW THEN RowsW
  ELSE {<<Int_(1), Int_(2)>>, <<Int_(2), Int_(2)>>, <<Int_(3), Int_(1)>>}
\* RelationMetadata::scan_all
scan_all(storage) == SortTuples(RelationRows(storage))
\* RelationMetadata::scan_prefix
scan_prefix(storage, prefix) == SortTuples({r \in RelationRows(storage) : IsPrefix(prefix, r)})
\* RelationMetadata::scan_bounded_prefix
scan_bounded_prefix(storage, prefix, l, u) ==
  SortTuples({r \in RelationRows(storage) :
                TupleLeq(prefix \o l, r) /\ TupleLeq(r, (prefix \o u) \o <<Bot>>)})

\* A temp store (SessionTx::new_temp_store): put keeps a key-ordered set of
\* tuples, scan_prefix returns those with the prefix in key order
temp_scan_prefix(store, prefix) == SortTuples({r \in store : IsPrefix(prefix, r)})

-----------------------------------------------------------------------------
(* Iterator adaptors.                                                      *)

\* map_ok(F).flatten_ok().map(flatten_err): every Ok tuple is replaced by
\* the items F yields for it, other items pass through
FlatMapOk(items, F(_)) ==
  CutPanic(Flatten([i \in 1..Len(items) |->
                      IF items[i].k = "ok" THEN F(items[i].t) ELSE <<items[i]>>]))

\* filter_iter, on one tuple
filter_iter_one(filters, t) ==
  LET r == preds_on(filters, t)
  IN IF r = "false" THEN <<>>
     ELSE IF r = "err" THEN <<Err(ErrEval)>>
     ELSE <<Ok(t)>>

\* filter_iter
filter_iter(filters, it) == FlatMapOk(it, LAMBDA t : filter_iter_one(filters, t))

\* TripleRA::return_filtered_iter
return_filtered_iter(r, it, eliminate_indices) ==
  LET f == IF r.filters = <<>> THEN it ELSE filter_iter(r.filters, it)
  IN IF eliminate_indices = {} THEN f
     ELSE FlatMapOk(f, LAMBDA t : <<Ok(eliminate_from_tuple(t, eliminate_indices))>>)

\* A negative join that lets the left tuple through with every column
neg_pass_keeping_columns(tuple, eliminate_indices) == tuple

\* The left tuple a negative join lets through
neg_pass(tuple, eliminate_indices) ==
  IF eliminate_indices # {} THEN SelectIdx(tuple, 0, eliminate_indices) ELSE tuple

EntityIdExpected(dv, span) == <<"EntityIdExpected", dv, span>>

\* tuple ++ [e, v] for each (e, v) of an AEV-ordered scan
ExtendEV(tuple, scan) == [i \in 1..Len(scan) |-> Ok(tuple \o <<scan[i][1], scan[i][2]>>)]
\* tuple ++ [e, v] for each (v, e) of an AVE-ordered scan
ExtendVE(tuple, scan) == [i \in 1..Len(scan) |-> Ok(tuple \o <<scan[i][2], scan[i][1]>>)]

\* TripleRA::cartesian_join
triple_cartesian_join(r, left_iter, eliminate_indices) ==
  LET sb == compute_single_bound(r.filters, r.bindings[2])
      ranged(tuple) ==
        IF r.attr.with_history
        THEN ExtendVE(tuple, triple_av_range_before_scan(r.attr, sb.l, sb.u, r.vld))
        ELSE ExtendVE(tuple, triple_av_range_scan(r.attr, sb.l, sb.u))
      full(tuple) ==
        IF r.attr.should_index /\ sb.some THEN ranged(tuple)
        ELSE IF r.attr.with_history
        THEN ExtendEV(tuple, triple_a_before_scan(r.attr, r.vld))
        ELSE ExtendEV(tuple, triple_a_scan(r.attr))
  IN IF r.attr.should_index /\ r.filters # <<>> /\ sb.some
     THEN return_filtered_iter(r, FlatMapOk(left_iter, ranged), eliminate_indices)
     ELSE return_filtered_iter(r, FlatMapOk(left_iter, full), eliminate_indices)

\* TripleRA::neg_ev_join, on one left tuple
neg_ev_join_one(r, tuple, left_e_idx, left_v_idx, eliminate_indices) ==
  IF left_e_idx >= Len(tuple) THEN <<Panic>>
  ELSE LET dv == tuple[left_e_idx + 1]
           eid == get_entity_id(dv)
       IN IF eid = NoEntity THEN <<Err(EntityIdExpected(dv, r.span))>>
          ELSE IF left_v_idx >= Len(tuple) THEN <<Panic>>
          ELSE IF aev_exists(r.attr, eid, tuple[left_v_idx + 1], r.vld) THEN <<>>
          ELSE <<Ok(neg_pass(tuple, eliminate_indices))>>

\* TripleRA::neg_ev_join
triple_neg_ev_join(r, left_iter, left_e_idx, left_v_idx, eliminate_indices) ==
  FlatMapOk(left_iter,
            LAMBDA t : neg_ev_join_one(r, t, left_e_idx, left_v_idx, eliminate_indices))

\* TripleRA::ev_join, on one left tuple
ev_join_one(r, tuple, left_e_idx, left_v_idx) ==
  IF left_e_idx >= Len(tuple) THEN <<Panic>>
  ELSE LET dv == tuple[left_e_idx + 1]
           eid == get_entity_id(dv)
       IN IF eid = NoEntity THEN <<Err(EntityIdExpected(dv, r.span))>>
          ELSE IF left_v_idx >= Len(tuple) THEN <<Panic>>
          ELSE IF aev_exists(r.attr, eid, tuple[left_v_idx + 1], r.vld)
          THEN <<Ok(tuple \o <<as_datavalue(eid), tuple[left_v_idx + 1]>>)>>
          ELSE <<>>

\* TripleRA::ev_join
triple_ev_join(r, left_iter, left_e_idx, left_v_idx, eliminate_indices) ==
  return_filtered_iter(
    r, FlatMapOk(left_iter, LAMBDA t : ev_join_one(r, t, left_e_idx, left_v_idx)),
    eliminate_indices)

\* TripleRA::neg_e_join, on one left tuple, reading the current triples
\* whether or not the attribute keeps history
neg_e_join_one_ignoring_history(r, tuple, left_e_idx, eliminate_indices) ==
  IF left_e_idx >= Len(tuple) THEN <<Panic>>
  ELSE LET dv == tuple[left_e_idx + 1]
           eid == get_entity_id(dv)
           scan == triple_ae_scan(r.attr, eid)
       IN IF eid = NoEntity THEN <<Err(EntityIdExpected(dv, r.span))>>
          ELSE IF scan = <<>> THEN <<Ok(neg_pass(tuple, eliminate_indices))>>
          ELSE <<>>

\* TripleRA::neg_e_join, on one left tuple
neg_e_join_one(r, tuple, left_e_idx, eliminate_indices) ==
  IF left_e_idx >= Len(tuple) THEN <<Panic>>
  ELSE LET dv == tuple[left_e_idx + 1]
           eid == get_entity_id(dv)
           scan == IF r.attr.with_history
                   THEN triple_ae_before_scan(r.attr, eid, r.vld)
                   ELSE triple_ae_scan(r.attr, eid)
       IN IF eid = NoEntity THEN <<Err(EntityIdExpected(dv, r.span))>>
          ELSE IF scan = <<>> THEN <<Ok(neg_pass(tuple, eliminate_indices))>>
          ELSE <<>>

\* TripleRA::neg_e_join
triple_neg_e_join(r, left_iter, left_e_idx, eliminate_indices) ==
  FlatMapOk(left_iter, LAMBDA t : neg_e_join_one(r, t, left_e_idx, eliminate_indices))

\* TripleRA::e_join, the bounds chosen for one left tuple:
\* [panic, failed, some, l, u]
e_join_bounds(r, tuple, no_bound_found) ==
  LET red == [i \in 1..Len(r.filters) |-> eval_bound(r.filters[i], tuple)]
      bad == \E i \in 1..Len(red) : ~red[i].ok
      cb == compute_bounds([i \in 1..Len(red) |-> red[i].e], <<r.bindings[2]>>)
      none == [panic |-> FALSE, failed |-> FALSE, some |-> FALSE, l |-> Null, u |-> Bot]
  IN IF r.filters = <<>> \/ no_bound_found THEN none
     ELSE IF bad THEN [none EXCEPT !.panic = TRUE]
     ELSE IF ~cb.ok THEN [none EXCEPT !.failed = TRUE]
     ELSE IF cb.l[1] # Null \/ cb.u[1] # Bot
     THEN [none EXCEPT !.some = TRUE, !.l = cb.l[1], !.u = cb.u[1]]
     ELSE none

\* TripleRA::e_join, on one left tuple with the bounds chosen for it
e_join_one(r, tuple, left_e_idx, b) ==
  IF b.panic \/ left_e_idx >= Len(tuple) THEN <<Panic>>
  ELSE LET dv == tuple[left_e_idx + 1]
           eid == get_entity_id(dv)
       IN IF eid = NoEntity THEN <<Err(EntityIdExpected(dv, r.span))>>
          ELSE IF b.some
          THEN IF r.attr.with_history
               THEN ExtendEV(tuple, triple_ae_range_before_scan(r.attr, eid, b.l, b.u, r.vld))
               ELSE ExtendEV(tuple, triple_ae_range_scan(r.attr, eid, b.l, b.u))
          ELSE IF r.attr.with_history
               THEN ExtendEV(tuple, triple_ae_before_scan(r.attr, eid, r.vld))
               ELSE ExtendEV(tuple, triple_ae_scan(r.attr, eid))

RECURSIVE e_join_scan(_, _, _, _)
\* TripleRA::e_join, the closure over the left stream; no_bound_found is
\* the flag it carries from one left tuple to the next
e_join_scan(r, left_iter, left_e_idx, no_bound_found) ==
  IF left_iter = <<>> THEN <<>>
  ELSE IF Head(left_iter).k # "ok"
  THEN <<Head(left_iter)>> \o e_join_scan(r, Tail(left_iter), left_e_idx, no_bound_found)
  ELSE LET b == e_join_bounds(r, Head(left_iter).t, no_bound_found)
       IN e_join_one(r, Head(left_iter).t, left_e_idx, b)
          \o e_join_scan(r, Tail(left_iter), left_e_idx, no_bound_found \/ b.failed)

\* TripleRA::e_join
triple_e_join(r, left_iter, left_e_idx, eliminate_indices) ==
  return_filtered_iter(r, CutPanic(e_join_scan(r, left_iter, left_e_idx, FALSE)),
                       eliminate_indices)

\* TripleRA::neg_v_ref_join, on one left tuple
neg_v_ref_join_one(r, tuple, left_v_idx, eliminate_indices) ==
  IF left_v_idx >= Len(tuple) THEN <<Panic>>
  ELSE LET dv == tuple[left_v_idx + 1]
           v_eid == get_entity_id(dv)
           scan == IF r.attr.with_history
                   THEN triple_vref_a_before_scan(v_eid, r.attr, r.vld)
                   ELSE triple_vref_a_scan(v_eid, r.attr)
       IN IF v_eid = NoEntity THEN <<Err(EntityIdExpected(dv, r.span))>>
          ELSE IF scan = <<>> THEN <<Ok(neg_pass(tuple, eliminate_indices))>>
          ELSE <<>>

\* TripleRA::neg_v_ref_join
triple_neg_v_ref_join(r, left_iter, left_v_idx, eliminate_indices) ==
  FlatMapOk(left_iter, LAMBDA t : neg_v_ref_join_one(r, t, left_v_idx, eliminate_indices))

\* TripleRA::v_ref_join, on one left tuple
v_ref_join_one(r, tuple, left_v_idx) ==
  IF left_v_idx >= Len(tuple) THEN <<Panic>>
  ELSE LET dv == tuple[left_v_idx + 1]
           v_eid == get_entity_id(dv)
           scan == IF r.attr.with_history
                   THEN triple_vref_a_before_scan(v_eid, r.attr, r.vld)
                   ELSE triple_vref_a_scan(v_eid, r.attr)
       IN IF v_eid = NoEntity THEN <<Err(EntityIdExpected(dv, r.span))>>
          ELSE [i \in 1..Len(scan) |-> Ok(tuple \o <<scan[i][2], as_datavalue(v_eid)>>)]

\* TripleRA::v_ref_join
triple_v_ref_join(r, left_iter, left_v_idx, eliminate_indices) ==
  return_filtered_iter(r, FlatMapOk(left_iter, LAMBDA t : v_ref_join_one(r, t, left_v_idx)),
                       eliminate_indices)

\* TripleRA::neg_v_index_join, on one left tuple
neg_v_index_join_one(r, tuple, left_v_idx, eliminate_indices) ==
  IF left_v_idx >= Len(tuple) THEN <<Panic>>
  ELSE LET val == tuple[left_v_idx + 1]
           scan == IF r.attr.with_history
                   THEN triple_av_before_scan(r.attr, val, r.vld)
                   ELSE triple_av_scan(r.attr, val)
       IN IF scan = <<>> THEN <<Ok(neg_pass(tuple, eliminate_indices))>> ELSE <<>>

\* TripleRA::neg_v_index_join
triple_neg_v_index_join(r, left_iter, left_v_idx, eliminate_indices) ==
  FlatMapOk(left_iter, LAMBDA t : neg_v_index_join_one(r, t, left_v_idx, eliminate_indices))

\* TripleRA::v_index_join, on one left tuple
v_index_join_one(r, tuple, left_v_idx) ==
  IF left_v_idx >= Len(tuple) THEN <<Panic>>
  ELSE LET val == tuple[left_v_idx + 1]
       IN IF r.attr.with_history
          THEN ExtendVE(tuple, triple_av_before_scan(r.attr, val, r.vld))
          ELSE ExtendVE(tuple, triple_av_scan(r.attr, val))

\* TripleRA::v_index_join
triple_v_index_join(r, left_iter, left_v_idx, eliminate_indices) ==
  return_filtered_iter(r, FlatMapOk(left_iter, LAMBDA t : v_index_join_one(r, t, left_v_idx)),
                       eliminate_indices)

\* TripleRA::neg_v_no_index_join, on one left tuple
neg_v_no_index_join_one(r, tuple, left_v_idx, eliminate_indices) ==
  IF left_v_idx >= Len(tuple) THEN <<Panic>>
  ELSE LET val == tuple[left_v_idx + 1]
           it == IF r.attr.with_history
                 THEN triple_a_before_scan(r.attr, r.vld)
                 ELSE triple_a_scan(r.attr)
       IN IF \E i \in 1..Len(it) : val = it[i][2] THEN <<>>
          ELSE <<Ok(neg_pass(tuple, eliminate_indices))>>

\* TripleRA::neg_v_no_index_join
triple_neg_v_no_index_join(r, left_iter, left_v_idx, eliminate_indices) ==
  FlatMapOk(left_iter,
            LAMBDA t : neg_v_no_index_join_one(r, t, left_v_idx, eliminate_indices))

\* TripleRA::v_no_index_join, on one left tuple: the temp store holds
\* [val, eid]; the closure pops the last column of a found row and pushes it
v_no_index_join_one(throwaway, tuple, left_v_idx) ==
  IF left_v_idx >= Len(tuple) THEN <<Panic>>
  ELSE LET found == temp_scan_prefix(throwaway, <<tuple[left_v_idx + 1]>>)
       IN [i \in 1..Len(found) |-> Ok(Append(tuple, found[i][Len(found[i])]))]

\* A loop over the scan that puts the elements it can read and passes over
\* the items in error
v_no_index_join_fill_skipping_errors(items) ==
  LET oks == SelectSeq(items, LAMBDA it : it.k = "ok")
  IN [failed |-> FALSE, item |-> Ok(<<>>),
      throwaway |-> {<<oks[n].t[2], oks[n].t[1]>> : n \in 1..Len(oks)}]

\* TripleRA::v_no_index_join, the loop that fills the temp store from the
\* items of the attribute scan: an item in error ends the loop and is
\* returned, an element (e, v) is put as [v, e]
v_no_index_join_fill(items) ==
  LET bad == {n \in 1..Len(items) : items[n].k # "ok"}
      first_bad == CHOOSE n \in bad : \A m \in bad : n <= m
  IN IF bad # {}
     THEN [failed |-> TRUE, item |-> items[first_bad], throwaway |-> {}]
     ELSE [failed |-> FALSE, item |-> Ok(<<>>),
           throwaway |-> {<<items[n].t[2], items[n].t[1]>> : n \in 1..Len(items)}]

\* TripleRA::v_no_index_join, given the items of the attribute scan
v_no_index_join_over(r, items, left_iter, left_v_idx, eliminate_indices) ==
  LET fill == v_no_index_join_fill(items)
  IN IF fill.failed THEN <<fill.item>>
     ELSE return_filtered_iter(
            r, FlatMapOk(left_iter,
                         LAMBDA t : v_no_index_join_one(fill.throwaway, t, left_v_idx)),
            eliminate_indices)

\* TripleRA::v_no_index_join, over a scan whose every element can be read
triple_v_no_index_join(r, left_iter, left_v_idx, eliminate_indices) ==
  LET it == IF r.attr.with_history
            THEN triple_a_before_scan(r.attr, r.vld)
            ELSE triple_a_scan(r.attr)
  IN v_no_index_join_over(r, [i \in 1..Len(it) |-> Ok(it[i])], left_iter, left_v_idx,
                          eliminate_indices)

\* TripleRA::neg_join
triple_neg_join(r, left_iter, lji, rji, eliminate_indices) ==
  CASE Len(rji) = 2 ->
         (CASE rji = <<0, 1>> ->
                 triple_neg_ev_join(r, left_iter, lji[1], lji[2], eliminate_indices)
            [] rji = <<1, 0>> ->
                 triple_neg_ev_join(r, left_iter, lji[2], lji[1], eliminate_indices)
            [] OTHER -> <<Panic>>)
    [] Len(rji) = 1 ->
         IF rji[1] = 0 THEN triple_neg_e_join(r, left_iter, lji[1], eliminate_indices)
         ELSE IF r.attr.is_ref
         THEN triple_neg_v_ref_join(r, left_iter, lji[1], eliminate_indices)
         ELSE IF r.attr.should_index
         THEN triple_neg_v_index_join(r, left_iter, lji[1], eliminate_indices)
         ELSE triple_neg_v_no_index_join(r, left_iter, lji[1], eliminate_indices)
    [] OTHER -> <<Panic>>

\* TripleRA::join with the value-bound choice made on the index before the
\* value type
triple_join_index_first(r, left_iter, lji, rji, eliminate_indices) ==
  CASE Len(rji) = 0 -> triple_cartesian_join(r, left_iter, eliminate_indices)
    [] Len(rji) = 2 ->
         (CASE rji = <<0, 1>> -> triple_ev_join(r, left_iter, lji[1], lji[2], eliminate_indices)
            [] rji = <<1, 0>> -> triple_ev_join(r, left_iter, lji[2], lji[1], eliminate_indices)
            [] OTHER -> <<Panic>>)
    [] Len(rji) = 1 ->
         IF rji[1] = 0 THEN triple_e_join(r, left_iter, lji[1], eliminate_indices)
         ELSE IF r.attr.should_index
         THEN triple_v_index_join(r, left_iter, lji[1], eliminate_indices)
         ELSE IF r.attr.is_ref THEN triple_v_ref_join(r, left_iter, lji[1], eliminate_indices)
         ELSE triple_v_no_index_join(r, left_iter, lji[1], eliminate_indices)
    [] OTHER -> <<Panic>>

\* TripleRA::join
triple_join(r, left_iter, lji, rji, eliminate_indices) ==
  CASE Len(rji) = 0 -> triple_cartesian_join(r, left_iter, eliminate_indices)
    [] Len(rji) = 2 ->
         (CASE rji = <<0, 1>> -> triple_ev_join(r, left_iter, lji[1], lji[2], eliminate_indices)
            [] rji = <<1, 0>> -> triple_ev_join(r, left_iter, lji[2], lji[1], eliminate_indices)
            [] OTHER -> <<Panic>>)
    [] Len(rji) = 1 ->
         IF rji[1] = 0 THEN triple_e_join(r, left_iter, lji[1], eliminate_indices)
         ELSE IF r.attr.is_ref THEN triple_v_ref_join(r, left_iter, lji[1], eliminate_indices)
         ELSE IF r.attr.should_index
         THEN triple_v_index_join(r, left_iter, lji[1], eliminate_indices)
         ELSE triple_v_no_index_join(r, left_iter, lji[1], eliminate_indices)
    [] OTHER -> <<Panic>>

\* TripleRA::iter
triple_iter(r) == triple_join(r, <<Ok(<<>>)>>, <<>>, <<>>, {})

\* The left column that the strategy TripleRA::join / neg_join takes reads
\* as an entity id (ev, e and v_ref joins), or NotFound
entity_column(r, lji, rji) ==
  CASE Len(rji) = 2 -> IF rji[1] = 0 THEN lji[1] ELSE lji[2]
    [] Len(rji) = 1 /\ (rji[1] = 0 \/ r.attr.is_ref) -> lji[1]
    [] OTHER -> NotFound

\* The storage calls that TripleRA::join (negative = FALSE) or
\* TripleRA::neg_join (negative = TRUE) issues while it serves one left
\* tuple: the entity check returns before the call, and so does the panic
\* of the e_join's bound computation; with join indices that the match on
\* their number rejects the call panics before it reads the left iterator
triple_storage_calls(r, tuple, lji, rji, negative) ==
  LET col == entity_column(r, lji, rji)
      no_entity == col # NotFound /\ get_entity_id(tuple[col + 1]) = NoEntity
      before == IF r.attr.with_history THEN "_before" ELSE ""
  IN CASE Len(rji) > 2 \/ (negative /\ Len(rji) = 0) -> {}
       [] Len(rji) = 2 ->
            IF rji \notin {<<0, 1>>, <<1, 0>>} \/ no_entity THEN {} ELSE {"aev_exists"}
       [] Len(rji) = 1 /\ rji[1] = 0 ->
            IF no_entity \/ (~negative /\ e_join_bounds(r, tuple, FALSE).panic) THEN {}
            ELSE IF ~negative /\ e_join_bounds(r, tuple, FALSE).some
            THEN {"triple_ae_range" \o before \o "_scan"}
            ELSE {"triple_ae" \o before \o "_scan"}
       [] Len(rji) = 1 /\ r.attr.is_ref ->
            IF no_entity THEN {} ELSE {"triple_vref_a" \o before \o "_scan"}
       [] Len(rji) = 1 /\ r.attr.should_index -> {"triple_av" \o before \o "_scan"}
       [] Len(rji) = 0 /\ r.attr.should_index
            /\ compute_single_bound(r.filters, r.bindings[2]).some ->
            {"triple_av_range" \o before \o "_scan"}
       [] OTHER -> {"triple_a" \o before \o "_scan"}

-----------------------------------------------------------------------------
(* InlineFixed, Stored and Derived as join participants.                   *)

\* InlineFixedRA::join with one data row, on one left tuple
fixed_join_single(data, tuple, lji, right_join_values, eliminate_indices) ==
  IF \E i \in 1..Len(lji) : lji[i] >= Len(tuple) THEN <<Panic>>
  ELSE IF [i \in 1..Len(lji) |-> tuple[lji[i] + 1]] = right_join_values
  THEN <<Ok(eliminate_from_tuple(tuple \o data, eliminate_indices))>>
  ELSE <<>>

\* InlineFixedRA::join with several data rows, on one left tuple: the rows
\* mapped under the left key values, each appended to the left tuple
fixed_join_multi(data, tuple, lji, rji) ==
  IF \E i \in 1..Len(lji) : lji[i] >= Len(tuple) THEN <<Panic>>
  ELSE LET key == [i \in 1..Len(lji) |-> tuple[lji[i] + 1]]
           hit == SelectSeq(data, LAMBDA row : [i \in 1..Len(rji) |-> row[rji[i] + 1]] = key)
       IN [i \in 1..Len(hit) |-> Ok(tuple \o hit[i])]

\* InlineFixedRA::join
fixed_join(f, left_iter, lji, rji, eliminate_indices) ==
  IF f.data = <<>> THEN <<>>
  ELSE IF \E n \in 1..Len(f.data) : \E i \in 1..Len(rji) : rji[i] >= Len(f.data[n])
  THEN <<Panic>>
  ELSE IF Len(f.data) = 1
  THEN FlatMapOk(left_iter,
                 LAMBDA t : fixed_join_single(
                              f.data[1], t, lji,
                              [i \in 1..Len(rji) |-> f.data[1][rji[i] + 1]],
                              eliminate_indices))
  ELSE FlatMapOk(left_iter, LAMBDA t : fixed_join_multi(f.data, t, lji, rji))

\* The 0-based positions of a list ordered by the value they hold
\* (enumerate() then a stable sort_by_key on the value)
RECURSIVE SortedPositions(_, _)
SortedPositions(rji, todo) ==
  IF todo = {} THEN <<>>
  ELSE LET m == CHOOSE a \in todo :
                  \A b \in todo : rji[a + 1] < rji[b + 1] \/ (rji[a + 1] = rji[b + 1] /\ a <= b)
       IN <<m>> \o SortedPositions(rji, todo \ {m})

right_invert_positions(rji) == SortedPositions(rji, 0..(Len(rji) - 1))

\* A prefix taken from the left join indices in the order the keys are given
left_to_prefix_indices_in_key_order(lji, rji) == lji

\* RelationRA::prefix_join / DerivedRA::prefix_join: left_to_prefix_indices
left_to_prefix_indices(lji, rji) ==
  LET inv == right_invert_positions(rji)
  IN [i \in 1..Len(inv) |-> lji[inv[i] + 1]]

\* A prefix of a negative join that takes every key, contiguous or not
neg_left_to_prefix_indices_uncut(lji, rji) ==
  LET inv == SortedPositions(rji, 0..(Len(rji) - 1))
  IN [i \in 1..Len(inv) |-> lji[inv[i] + 1]]

\* RelationRA::neg_join / DerivedRA::neg_join: left_to_prefix_indices, cut
\* at the first key that is not at its sorted rank
neg_left_to_prefix_indices(lji, rji) ==
  LET inv == right_invert_positions(rji)
      stop == {ord \in 1..Len(inv) : ord - 1 # rji[inv[ord] + 1]}
      n == IF stop = {} THEN Len(inv) ELSE (CHOOSE o \in stop : \A p \in stop : o <= p) - 1
  IN [i \in 1..n |-> lji[inv[i] + 1]]

\* RelationRA::join_is_prefix / DerivedRA::join_is_prefix
join_is_prefix(rji) ==
  LET inv == right_invert_positions(rji)
  IN [i \in 1..Len(inv) |-> rji[inv[i] + 1]] = [i \in 1..Len(rji) |-> i - 1]

\* The bounds a prefix join takes from the pushed-down filters:
\* compute_bounds over the columns after the key columns
prefix_bounds(r, rji) ==
  LET cb == compute_bounds(r.filters, SubSeq(r.bindings, Len(rji) + 1, Len(r.bindings)))
  IN IF cb.ok THEN cb ELSE [ok |-> FALSE, l |-> <<>>, u |-> <<>>]

bounds_are_open(b) ==
  (\A i \in 1..Len(b.l) : b.l[i] = Null) /\ (\A i \in 1..Len(b.u) : b.u[i] = Bot)

Extend(tuple, rows) == [i \in 1..Len(rows) |-> Ok(tuple \o rows[i])]

\* The store scans of a prefix join: a Derived node reads its store at the
\* scan epoch se, a Stored node reads the relation
store_scan_prefix(r, prefix, se) ==
  IF r.t = "Derived" THEN scan_prefix_for_epoch(r.storage, prefix, se)
  ELSE scan_prefix(r.storage, prefix)
store_scan_bounded_prefix(r, prefix, l, u, se) ==
  IF r.t = "Derived" THEN scan_bounded_prefix_for_epoch(r.storage, prefix, l, u, se)
  ELSE scan_bounded_prefix(r.storage, prefix, l, u)

\* A closure that does not keep the flag: it is clear again at the next
\* left tuple
prefix_join_step_forgetting(r, rji, skip_range_check) ==
  LET computed == ~skip_range_check /\ r.filters # <<>>
  IN [computed |-> computed,
      ranged |-> computed /\ ~bounds_are_open(prefix_bounds(r, rji)),
      skip |-> FALSE]

\* The closure of prefix_join on one left tuple, given the flag it carries:
\* whether compute_bounds is called, whether the bounded scan is taken, and
\* skip_range_check afterwards (set at the first unbounded scan)
prefix_join_step(r, rji, skip_range_check) ==
  LET computed == ~skip_range_check /\ r.filters # <<>>
      ranged == computed /\ ~bounds_are_open(prefix_bounds(r, rji))
  IN [computed |-> computed, ranged |-> ranged,
      skip |-> IF ranged THEN skip_range_check ELSE TRUE]

RECURSIVE prefix_join_scan(_, _, _, _, _, _)
\* The closure of prefix_join over the left stream; skip_range_check is the
\* flag it carries from one left tuple to the next
prefix_join_scan(r, left_iter, l2p, rji, skip_range_check, se) ==
  IF left_iter = <<>> THEN <<>>
  ELSE IF Head(left_iter).k # "ok"
  THEN <<Head(left_iter)>>
       \o prefix_join_scan(r, Tail(left_iter), l2p, rji, skip_range_check, se)
  ELSE LET tuple == Head(left_iter).t
           oob == \E i \in 1..Len(l2p) : l2p[i] >= Len(tuple)
           prefix == [i \in 1..Len(l2p) |-> tuple[l2p[i] + 1]]
           b == prefix_bounds(r, rji)
           step == prefix_join_step(r, rji, skip_range_check)
       IN IF oob THEN <<Panic>>
          ELSE IF step.ranged
          THEN Extend(tuple, store_scan_bounded_prefix(r, prefix, b.l, b.u, se))
               \o prefix_join_scan(r, Tail(left_iter), l2p, rji, step.skip, se)
          ELSE Extend(tuple, store_scan_prefix(r, prefix, se))
               \o prefix_join_scan(r, Tail(left_iter), l2p, rji, step.skip, se)

\* The tail of prefix_join: the node's filters, then the elimination
prefix_join_finish(r, it, eliminate_indices) ==
  LET f == IF r.filters = <<>> THEN it ELSE filter_iter(r.filters, it)
  IN IF eliminate_indices = {} THEN f
     ELSE FlatMapOk(f, LAMBDA t : <<Ok(eliminate_from_tuple(t, eliminate_indices))>>)

\* RelationRA::prefix_join
relation_prefix_join(r, left_iter, lji, rji, eliminate_indices) ==
  LET l2p == left_to_prefix_indices(lji, rji)
  IN prefix_join_finish(
       r, CutPanic(prefix_join_scan(r, left_iter, l2p, rji, FALSE, 0)),
       eliminate_indices)

RECURSIVE neg_row_check(_, _, _, _)
\* The inner loop of a negative join over the key pairs of one found row:
\* "match" when every pair is equal, "differ" at the first unequal pair
neg_row_check(tuple, found, lji, rji) ==
  IF lji = <<>> \/ rji = <<>> THEN "match"
  ELSE IF Head(lji) >= Len(tuple) \/ Head(rji) >= Len(found) THEN "panic"
  ELSE IF tuple[Head(lji) + 1] # found[Head(rji) + 1] THEN "differ"
  ELSE neg_row_check(tuple, found, Tail(lji), Tail(rji))

RECURSIVE neg_rows_check(_, _, _, _)
\* The outer loop over the scanned rows: "match" at the first matching row
neg_rows_check(tuple, rows, lji, rji) ==
  IF rows = <<>> THEN "none"
  ELSE LET c == neg_row_check(tuple, Head(rows), lji, rji)
       IN IF c = "differ" THEN neg_rows_check(tuple, Tail(rows), lji, rji) ELSE c

\* RelationRA::neg_join / DerivedRA::neg_join, on one left tuple: the
\* prefix scan of the store (the accumulated relation for a Derived node)
\* and the check of its rows
store_neg_join_one(r, tuple, l2p, lji, rji, eliminate_indices) ==
  IF \E i \in 1..Len(l2p) : l2p[i] >= Len(tuple) THEN <<Panic>>
  ELSE LET prefix == [i \in 1..Len(l2p) |-> tuple[l2p[i] + 1]]
           rows == IF r.t = "Derived" THEN derived_scan_prefix(r.storage, prefix)
                   ELSE scan_prefix(r.storage, prefix)
           c == neg_rows_check(tuple, rows, lji, rji)
       IN IF c = "panic" THEN <<Panic>>
          ELSE IF c = "match" THEN <<>>
          ELSE <<Ok(neg_pass(tuple, eliminate_indices))>>

\* RelationRA::neg_join: debug_assert!(!right_join_indices.is_empty()) is
\* its first statement
relation_neg_join(r, left_iter, lji, rji, eliminate_indices, debug_assertions) ==
  LET l2p == neg_left_to_prefix_indices(lji, rji)
  IN IF debug_assertions /\ rji = <<>> THEN <<Panic>>
     ELSE FlatMapOk(left_iter,
                    LAMBDA t : store_neg_join_one(r, t, l2p, lji, rji, eliminate_indices))

\* RelationRA::iter
relation_iter(r) ==
  LET it == [i \in 1..Len(scan_all(r.storage)) |-> Ok(scan_all(r.storage)[i])]
  IN IF r.filters = <<>> THEN it ELSE filter_iter(r.filters, it)

\* Option<u32>: None
NoEpoch == -1
\* The epoch that 0 - 1 wraps to in u32 arithmetic (u32::MAX), an epoch no
\* store holds rows for
WrappedEpoch == -2

\* DerivedRA::iter / DerivedRA::prefix_join without the early return
derived_is_empty_delta_skipped(r, ep, delta) == FALSE

\* DerivedRA::iter / DerivedRA::prefix_join: the early return
derived_is_empty_delta(r, ep, delta) == ep = 0 /\ r.storage \in delta

\* A scan_epoch that always reads the accumulated relation
scan_epoch_accumulated(r, ep, delta) == 0

\* DerivedRA::iter / DerivedRA::prefix_join: scan_epoch
scan_epoch(r, ep, delta) ==
  IF ep = NoEpoch THEN 0
  ELSE IF r.storage \in delta THEN (IF ep >= 1 THEN ep - 1 ELSE WrappedEpoch)
  ELSE 0

\* DerivedRA::iter without the early return and the delta rule: it reads
\* the accumulated relation
derived_iter_without_delta(r, ep, delta) ==
  LET rows == scan_all_for_epoch(r.storage, 0)
      it == [i \in 1..Len(rows) |-> Ok(rows[i])]
  IN IF r.filters = <<>> THEN it ELSE filter_iter(r.filters, it)

\* DerivedRA::iter
derived_iter(r, ep, delta) ==
  IF derived_is_empty_delta(r, ep, delta) THEN <<>>
  ELSE LET rows == scan_all_for_epoch(r.storage, scan_epoch(r, ep, delta))
           it == [i \in 1..Len(rows) |-> Ok(rows[i])]
       IN IF r.filters = <<>> THEN it ELSE filter_iter(r.filters, it)

\* DerivedRA::neg_join: debug_assert!(!right_join_indices.is_empty()) is
\* its first statement
derived_neg_join(r, left_iter, lji, rji, eliminate_indices, debug_assertions) ==
  LET l2p == neg_left_to_prefix_indices(lji, rji)
  IN IF debug_assertions /\ rji = <<>> THEN <<Panic>>
     ELSE FlatMapOk(left_iter,
                    LAMBDA t : store_neg_join_one(r, t, l2p, lji, rji, eliminate_indices))

\* DerivedRA::prefix_join
derived_prefix_join(r, left_iter, lji, rji, eliminate_indices, ep, delta) ==
  IF derived_is_empty_delta(r, ep, delta) THEN <<>>
  ELSE LET l2p == left_to_prefix_indices(lji, rji)
           se == scan_epoch(r, ep, delta)
       IN prefix_join_finish(
            r, CutPanic(prefix_join_scan(r, left_iter, l2p, rji, FALSE, se)),
            eliminate_indices)

-----------------------------------------------------------------------------
(* The driver: RelAlgebra::iter and the operators with children.           *)

\* Joiner::join_indices: [panic, l, r]; a key that is not among the
\* bindings makes the unwrap panic
join_indices(j, left_bindings, right_bindings) ==
  LET n == IF Len(j.left_keys) < Len(j.right_keys) THEN Len(j.left_keys)
           ELSE Len(j.right_keys)
  IN [panic |-> \E i \in 1..n : \/ j.left_keys[i] \notin Range(left_bindings)
                                \/ j.right_keys[i] \notin Range(right_bindings),
      l |-> [i \in 1..n |-> IndexOf(left_bindings, j.left_keys[i])],
      r |-> [i \in 1..n |-> IndexOf(right_bindings, j.right_keys[i])]]

BadSpreadUnification(span) == <<"BadSpreadUnification", span>>

\* A unification that appends the value as it is, spread or not
unification_one_unspread(u, tuple, eliminate_indices) ==
  LET res == expr_eval(u.expr, tuple)
  IN IF ~res.ok THEN <<Err(ErrEval)>>
     ELSE <<Ok(eliminate_from_tuple(Append(tuple, res.v), eliminate_indices))>>

\* UnificationRA::iter, the closure on one parent tuple
unification_one(u, tuple, eliminate_indices) ==
  LET res == expr_eval(u.expr, tuple)
  IN IF ~res.ok THEN <<Err(ErrEval)>>
     ELSE IF u.is_multi
     THEN IF res.v[1] # KList THEN <<Err(BadSpreadUnification(u.span))>>
          ELSE [i \in 1..Len(get_list(res.v)) |->
                  Ok(eliminate_from_tuple(Append(tuple, get_list(res.v)[i]),
                                          eliminate_indices))]
     ELSE <<Ok(eliminate_from_tuple(Append(tuple, res.v), eliminate_indices))>>

\* A Filter that lets the parent tuple through with all its columns
filtered_one_keeping_columns(f, t, eliminate_indices) ==
  LET r == preds_on(f.pred, t)
  IN IF r = "false" THEN <<>>
     ELSE IF r = "err" THEN <<Err(ErrEval)>>
     ELSE <<Ok(t)>>

\* FilteredRA::iter, the closure on one parent tuple
filtered_one(f, t, eliminate_indices) ==
  LET r == preds_on(f.pred, t)
  IN IF r = "false" THEN <<>>
     ELSE IF r = "err" THEN <<Err(ErrEval)>>
     ELSE <<Ok(eliminate_from_tuple(t, eliminate_indices))>>

\* ReorderRA::iter, the closure on one child tuple
reorder_one(old, reorder_indices) ==
  IF \E i \in 1..Len(reorder_indices) : reorder_indices[i] >= Len(old) THEN <<Panic>>
  ELSE <<Ok([i \in 1..Len(reorder_indices) |-> old[reorder_indices[i] + 1]])>>

\* InnerJoin::materialized_join: right_store_indices, the key columns
\* first and then the other columns in their order
right_store_indices(rji, n) ==
  rji \o SelectSeq([i \in 1..n |-> i - 1], LAMBDA i : i \notin Range(rji))

\* InnerJoin::materialized_join, the closure on one left tuple
materialized_one(throwaway, tuple, lji, restore_indices, eliminate_indices) ==
  IF \E i \in 1..Len(lji) : lji[i] >= Len(tuple) THEN <<Panic>>
  ELSE LET found == temp_scan_prefix(throwaway, [i \in 1..Len(lji) |-> tuple[lji[i] + 1]])
       IN [n \in 1..Len(found) |->
             Ok(eliminate_from_tuple(
                  tuple \o [i \in 1..Len(restore_indices) |-> found[n][restore_indices[i] + 1]],
                  eliminate_indices))]

\* InnerJoin::materialized_join that walks the stored right rows and looks
\* the left tuples up for each of them
materialized_join_right_major(j, right_iter, left_iter, eliminate_indices, debug_assertions) ==
  LET left_bindings == bindings_after_eliminate(j.left, debug_assertions)
      right_bindings == bindings_after_eliminate(j.right, debug_assertions)
      ji == join_indices(j, left_bindings.ret, right_bindings.ret)
      rsi == right_store_indices(ji.r, Len(right_bindings.ret))
      restore == right_invert_positions(rsi)
      oks == SelectSeq(right_iter, LAMBDA it : it.k = "ok")
      stored == SortTuples({[i \in 1..Len(rsi) |-> oks[n].t[rsi[i] + 1]] : n \in 1..Len(oks)})
  IN IF left_bindings.panic \/ right_bindings.panic \/ ji.panic \/ Len(oks) # Len(right_iter)
     THEN <<Panic>>
     ELSE Flatten([n \in 1..Len(stored) |->
                     FlatMapOk(left_iter,
                               LAMBDA t : materialized_one({stored[n]}, t, ji.l, restore,
                                                           eliminate_indices))])

\* InnerJoin::materialized_join, the loop that fills the temp store from the
\* items of the right child: an item in error ends the loop and is returned,
\* a row shorter than a stored position panics
materialized_join_fill(right_iter, rsi) ==
  LET bad == {n \in 1..Len(right_iter) : right_iter[n].k # "ok"}
      first_bad == CHOOSE n \in bad : \A m \in bad : n <= m
      upto == IF bad = {} THEN Len(right_iter) ELSE first_bad - 1
      short == \E n \in 1..upto : \E i \in 1..Len(rsi) : rsi[i] >= Len(right_iter[n].t)
  IN IF short THEN [failed |-> TRUE, item |-> Panic, throwaway |-> {}]
     ELSE IF bad # {} THEN [failed |-> TRUE, item |-> right_iter[first_bad], throwaway |-> {}]
     ELSE [failed |-> FALSE, item |-> Ok(<<>>),
           throwaway |-> {[i \in 1..Len(rsi) |-> right_iter[n].t[rsi[i] + 1]] :
                            n \in 1..Len(right_iter)}]

\* InnerJoin::materialized_join, given the items of the right child and,
\* where the right child is drained without an error, those of the left
materialized_join(j, right_iter, left_iter, eliminate_indices, debug_assertions) ==
  LET joined(left_bindings, right_bindings, ji, rsi, fill) ==
        IF left_bindings.panic \/ right_bindings.panic \/ ji.panic THEN <<Panic>>
        ELSE IF fill.failed THEN <<fill.item>>
        ELSE FlatMapOk(left_iter,
                       LAMBDA t : materialized_one(fill.throwaway, t, ji.l,
                                                   right_invert_positions(rsi),
                                                   eliminate_indices))
      indexed(left_bindings, right_bindings, ji) ==
        joined(left_bindings, right_bindings, ji,
               right_store_indices(ji.r, Len(right_bindings.ret)),
               materialized_join_fill(right_iter,
                                      right_store_indices(ji.r, Len(right_bindings.ret))))
      bound(left_bindings, right_bindings) ==
        indexed(left_bindings, right_bindings,
                join_indices(j, left_bindings.ret, right_bindings.ret))
  IN bound(bindings_after_eliminate(j.left, debug_assertions),
           bindings_after_eliminate(j.right, debug_assertions))

\* TripleRA::join / TripleRA::neg_join: the match on the number of join
\* indices ends in panic!("should not happen") or unreachable!()
triple_join_rejects(rji, negative) ==
  \/ Len(rji) > 2
  \/ Len(rji) = 2 /\ rji \notin {<<0, 1>>, <<1, 0>>}
  \/ negative /\ Len(rji) = 0

\* What a call of RelAlgebra::iter gives: a panic before it returns, or the
\* iterator it returns, held as the items the iterator yields when drained
Returned(items) == [panic |-> FALSE, items |-> items]
CallPanic == [panic |-> TRUE, items |-> <<Panic>>]

RECURSIVE iter_call(_, _, _, _)
\* UnificationRA::iter
unification_iter(u, ep, delta, debug_assertions) ==
  LET parent_bindings == bindings_after_eliminate(u.parent, debug_assertions)
      eliminate_indices ==
        get_eliminate_indices(Append(parent_bindings.ret, u.binding), u.to_eliminate)
      parent == iter_call(u.parent, ep, delta, debug_assertions)
  IN IF parent_bindings.panic \/ parent.panic THEN CallPanic
     ELSE Returned(FlatMapOk(parent.items,
                             LAMBDA t : unification_one(u, t, eliminate_indices)))

\* FilteredRA::iter
filtered_iter(f, ep, delta, debug_assertions) ==
  LET parent_bindings == bindings_after_eliminate(f.parent, debug_assertions)
      eliminate_indices == get_eliminate_indices(parent_bindings.ret, f.to_eliminate)
      parent == iter_call(f.parent, ep, delta, debug_assertions)
  IN IF parent_bindings.panic \/ parent.panic THEN CallPanic
     ELSE Returned(FlatMapOk(parent.items, LAMBDA t : filtered_one(f, t, eliminate_indices)))

\* ReorderRA::iter: expect("reorder indices mismatch") panics in the call
reorder_iter(r, ep, delta, debug_assertions) ==
  LET old_order == bindings_after_eliminate(r.relation, debug_assertions)
      reorder_indices ==
        [i \in 1..Len(r.new_order) |-> IndexOf(old_order.ret, r.new_order[i])]
      relation_ == iter_call(r.relation, ep, delta, debug_assertions)
  IN IF \/ old_order.panic
        \/ \E i \in 1..Len(r.new_order) : r.new_order[i] \notin Range(old_order.ret)
        \/ relation_.panic
     THEN CallPanic
     ELSE Returned(FlatMapOk(relation_.items, LAMBDA t : reorder_one(t, reorder_indices)))

\* NegJoin::iter: the left bindings are read, the join indices unwrapped and
\* the left iterator built before the right operand's neg_join is called
negjoin_iter(j, ep, delta, debug_assertions) ==
  LET bindings == bindings_after_eliminate(j.left, debug_assertions)
      eliminate_indices == get_eliminate_indices(bindings.ret, j.to_eliminate)
      ji == join_indices(j, bindings.ret,
                         bindings_after_eliminate(j.right, debug_assertions).ret)
      left == iter_call(j.left, ep, delta, debug_assertions)
  IN IF \/ bindings.panic
        \/ j.right.t \notin {"Triple", "Derived", "Relation"}
        \/ ji.panic
        \/ left.panic
        \/ j.right.t = "Triple" /\ triple_join_rejects(ji.r, TRUE)
        \/ j.right.t \in {"Derived", "Relation"} /\ debug_assertions /\ ji.r = <<>>
     THEN CallPanic
     ELSE IF j.right.t = "Triple"
     THEN Returned(triple_neg_join(j.right, left.items, ji.l, ji.r, eliminate_indices))
     ELSE IF j.right.t = "Derived"
     THEN Returned(derived_neg_join(j.right, left.items, ji.l, ji.r, eliminate_indices,
                                    debug_assertions))
     ELSE Returned(relation_neg_join(j.right, left.items, ji.l, ji.r, eliminate_indices,
                                     debug_assertions))

\* InnerJoin::iter: the bindings are read, the join indices unwrapped and the
\* left iterator built before the right operand's join is called;
\* materialized_join drains the right child before it builds the left
\* iterator, and returns at the first error without building it
innerjoin_iter(j, ep, delta, debug_assertions) ==
  LET bindings == join_bindings(j, debug_assertions)
      eliminate_indices == get_eliminate_indices(bindings.ret, j.to_eliminate)
      right_bindings == bindings_after_eliminate(j.right, debug_assertions).ret
      ji == join_indices(j, bindings_after_eliminate(j.left, debug_assertions).ret,
                         right_bindings)
      materialized == \/ j.right.t \in {"Join", "Filter", "Unification"}
                      \/ j.right.t \in {"Derived", "Relation"} /\ ~join_is_prefix(ji.r)
      left == iter_call(j.left, ep, delta, debug_assertions)
      right == iter_call(j.right, ep, delta, debug_assertions)
      fill == materialized_join_fill(right.items,
                                     right_store_indices(ji.r, Len(right_bindings)))
  IN CASE bindings.panic \/ j.right.t \in {"Reorder", "NegJoin"} \/ ji.panic -> CallPanic
       [] materialized ->
            IF fill.failed
            THEN IF fill.item = Panic THEN CallPanic ELSE Returned(<<fill.item>>)
            ELSE IF left.panic THEN CallPanic
            ELSE Returned(materialized_join(j, right.items, left.items, eliminate_indices,
                                            debug_assertions))
       [] left.panic -> CallPanic
       [] j.right.t = "Fixed" ->
            IF /\ j.right.data # <<>>
               /\ \E n \in 1..Len(j.right.data) :
                    \E i \in 1..Len(ji.r) : ji.r[i] >= Len(j.right.data[n])
            THEN CallPanic
            ELSE Returned(fixed_join(j.right, left.items, ji.l, ji.r, eliminate_indices))
       [] j.right.t = "Triple" ->
            IF triple_join_rejects(ji.r, FALSE) THEN CallPanic
            ELSE Returned(triple_join(j.right, left.items, ji.l, ji.r, eliminate_indices))
       [] j.right.t = "Derived" ->
            Returned(derived_prefix_join(j.right, left.items, ji.l, ji.r, eliminate_indices,
                                         ep, delta))
       [] j.right.t = "Relation" ->
            Returned(relation_prefix_join(j.right, left.items, ji.l, ji.r,
                                          eliminate_indices))

\* RelAlgebra::iter, the call
iter_call(r, ep, delta, debug_assertions) ==
  CASE r.t = "Fixed" -> Returned([i \in 1..Len(r.data) |-> Ok(r.data[i])])
    [] r.t = "Triple" -> Returned(triple_iter(r))
    [] r.t = "Derived" -> Returned(derived_iter(r, ep, delta))
    [] r.t = "Relation" -> Returned(relation_iter(r))
    [] r.t = "Join" -> innerjoin_iter(r, ep, delta, debug_assertions)
    [] r.t = "Reorder" -> reorder_iter(r, ep, delta, debug_assertions)
    [] r.t = "Filter" -> filtered_iter(r, ep, delta, debug_assertions)
    [] r.t = "NegJoin" -> negjoin_iter(r, ep, delta, debug_assertions)
    [] r.t = "Unification" -> unification_iter(r, ep, delta, debug_assertions)

\* RelAlgebra::iter called and the iterator it returns drained: the items in
\* order, a panic of the call being the only item
iter(r, ep, delta, debug_assertions) == iter_call(r, ep, delta, debug_assertions).items

-----------------------------------------------------------------------------
(* The inputs of the model: symbols, data, attributes, expressions.        *)

\* InlineFixed data over [x, y]: entity ids, a list and a null
DataXY ==
  << <<Int_(1), Int_(2)>>, <<Int_(2), List_(<<1, 2>>)>>, <<Null, Int_(1)>> >>
\* InlineFixed data over [a, b]
DataAB == << <<Int_(1), Int_(2)>>, <<Int_(2), Int_(2)>> >>

\* The validity every Triple node reads at, and the spans of the nodes
Vld == 1
SpanTriple == 7
SpanUnify == 9

AttrPlain == Attr(1, FALSE, FALSE, FALSE)
AttrIndexedHist == Attr(2, TRUE, FALSE, TRUE)
Attrs == {Attr(10 * h + 2 * r + i, h = 1, r = 1, i = 1) : h \in {0, 1}, r \in {0, 1}, i \in {0, 1}}

\* The derived stores R and S
StoreR == 1
StoreS == 2

\* Leaves a tree is started from
LeftLeaves ==
  {unit, fixed(<<"x", "y">>, DataXY),
   triple(AttrIndexedHist, Vld, "x", "y", SpanTriple),
   derived(<<"x", "y">>, StoreR), relation(<<"x", "y">>, StoreR)}

\* Right operands of joins
RightSources ==
  {triple(AttrPlain, Vld, "a", "b", SpanTriple),
   triple(AttrIndexedHist, Vld, "a", "b", SpanTriple),
   derived(<<"a", "b">>, StoreS), relation(<<"a", "b">>, StoreS)}
RightOperands ==
  RightSources
  \cup {fixed(<<"a", "b">>, <<>>), fixed(<<"a", "b">>, SubSeq(DataAB, 1, 1)),
        fixed(<<"a", "b">>, DataAB),
        filter(derived(<<"a", "b">>, StoreS), Cmp("gt", Var("b"), Const(Int_(1)))),
        unify(fixed(<<"a">>, << <<Int_(1)>>, <<Int_(2)>> >>), "b", Val(Var("a")), FALSE,
              SpanUnify)}

\* Key lists of a join: left keys from [x, y], right keys from [a, b]
KeyPairs ==
  {<< <<>>, <<>> >>, << <<"x">>, <<"a">> >>, << <<"x">>, <<"b">> >>,
   << <<"x", "y">>, <<"a", "b">> >>, << <<"y", "x">>, <<"b", "a">> >>}

\* Predicates and unification expressions
Preds ==
  {Cmp("gt", Var("y"), Const(Int_(1))), Cmp("gt", Var("b"), Const(Int_(1))),
   Cmp("lt", Var("b"), Var("x"))}
UnifyExprs == {Val(Var("y")), Val(Const(List_(<<1, 2>>)))}

\* The sets handed to eliminate_temp_vars at the root
UsedSets == {{}, {"x"}, {"y", "b"}, {"x", "y", "a", "b", "u"}}

\* The (epoch, use_delta) pairs handed to iter
EpochDeltas ==
  {<<NoEpoch, {}>>} \cup {<<ep, {s}>> : ep \in 0..MaxEpoch, s \in {StoreR, StoreS}}

RECURSIVE Nodes(_)
\* The nodes of a tree
Nodes(r) ==
  {r} \cup (CASE r.t \in {"Join", "NegJoin"} -> Nodes(r.left) \cup Nodes(r.right)
              [] r.t \in {"Filter", "Unification"} -> Nodes(r.parent)
              [] r.t = "Reorder" -> Nodes(r.relation)
              [] OTHER -> {})

RECURSIVE Symbols(_)
\* Every symbol a tree binds
Symbols(r) ==
  CASE r.t \in {"Join", "NegJoin"} -> Symbols(r.left) \cup Symbols(r.right)
    [] r.t = "Filter" -> Symbols(r.parent)
    [] r.t = "Unification" -> Symbols(r.parent) \cup {r.binding}
    [] r.t = "Reorder" -> Symbols(r.relation)
    [] OTHER -> Range(r.bindings)

-----------------------------------------------------------------------------
(* The state machine: the tree is built with the constructors, then        *)
(* eliminate_temp_vars, fill_normal_binding_indices and iter are called in *)
(* that order, and the iterator is drained.                                *)

Init ==
  /\ ra \in LeftLeaves
  /\ nops = 0
  /\ phase = "build"
  /\ used = {}
  /\ epoch = NoEpoch
  /\ use_delta = {}
  /\ out = <<>>
  /\ cfg_debug_assertions \in BOOLEAN

CanBuild == phase = "build" /\ nops < MaxOps

Built(r) ==
  /\ ra' = r
  /\ nops' = nops + 1
  /\ UNCHANGED <<phase, used, epoch, use_delta, out, cfg_debug_assertions>>

\* RelAlgebra::filter
MkFilter ==
  /\ CanBuild
  /\ \E p \in Preds :
       /\ expr_bindings(p) \subseteq Range(bindings_after_eliminate(ra, FALSE).ret)
       /\ Built(filter(ra, p))

\* RelAlgebra::get_filters, and the push of a predicate through the handle
PushFilter ==
  /\ CanBuild
  /\ HasFilters(ra)
  /\ \E p \in Preds :
       /\ expr_bindings(p) \subseteq Range(bindings_after_eliminate(ra, FALSE).ret)
       /\ Built(push_filter(ra, p))

\* RelAlgebra::unify
MkUnify ==
  /\ CanBuild
  /\ "u" \notin Symbols(ra)
  /\ \E e \in UnifyExprs, m \in BOOLEAN :
       /\ expr_bindings(e) \subseteq Range(bindings_after_eliminate(ra, FALSE).ret)
       /\ Built(unify(ra, "u", e, m, SpanUnify))

\* RelAlgebra::reorder
MkReorder ==
  /\ CanBuild
  /\ ra.t # "Reorder"
  /\ LET b == bindings_after_eliminate(ra, FALSE).ret
     IN /\ b # <<>>
        /\ \E o \in {[i \in 1..Len(b) |-> b[Len(b) + 1 - i]], <<b[Len(b)]>>} :
             Built(reorder(ra, o))

KeysFit(r, right, kp) ==
  /\ Range(kp[1]) \subseteq Range(bindings_after_eliminate(r, FALSE).ret)
  /\ Range(kp[2]) \subseteq Range(bindings_after_eliminate(right, FALSE).ret)
  /\ Symbols(r) \cap Symbols(right) = {}

\* RelAlgebra::join and RelAlgebra::cartesian_join
MkJoin ==
  /\ CanBuild
  /\ \E right \in RightOperands, kp \in KeyPairs :
       /\ KeysFit(ra, right, kp)
       /\ Built(join(ra, right, kp[1], kp[2]))

\* RelAlgebra::neg_join
MkNegJoin ==
  /\ CanBuild
  /\ \E right \in RightSources, kp \in KeyPairs :
       /\ kp[1] # <<>>
       /\ KeysFit(ra, right, kp)
       /\ Built(neg_join(ra, right, kp[1], kp[2]))

\* RelAlgebra::eliminate_temp_vars, called on the root.  Each node reads
\* the bindings before it marks itself and descends, so with debug
\* assertions a join that repeats a symbol ends the lifecycle in a panic
\* with the nodes above it marked
Eliminate ==
  /\ phase = "build"
  /\ \E u \in UsedSets :
       LET e == eliminate_temp_vars(ra, u, cfg_debug_assertions)
       IN /\ used' = u
          /\ ra' = e.r
          /\ phase' = IF e.panic THEN "panicked" ELSE "eliminated"
  /\ UNCHANGED <<nops, epoch, use_delta, out, cfg_debug_assertions>>

\* RelAlgebra::fill_normal_binding_indices, called on the root
Fill ==
  /\ phase = "eliminated"
  /\ LET f == fill_normal_binding_indices(ra, cfg_debug_assertions)
     IN /\ ra' = f.r
        /\ phase' = IF f.panic THEN "panicked" ELSE IF f.ok THEN "filled" ELSE "fill_err"
  /\ UNCHANGED <<nops, used, epoch, use_delta, out, cfg_debug_assertions>>

\* RelAlgebra::iter, called on the root, and the iterator drained by
\* calling next until it returns None: out holds every item in order
Iter ==
  /\ phase = "filled"
  /\ \E p \in EpochDeltas :
       /\ \A s \in p[2] : \E n \in Nodes(ra) : n.t = "Derived" /\ n.storage = s
       /\ epoch' = p[1]
       /\ use_delta' = p[2]
       /\ out' = iter(ra, p[1], p[2], cfg_debug_assertions)
  /\ phase' = "iter"
  /\ UNCHANGED <<ra, nops, used, cfg_debug_assertions>>

Next ==
  \/ MkFilter
  \/ PushFilter
  \/ MkUnify
  \/ MkReorder
  \/ MkJoin
  \/ MkNegJoin
  \/ Eliminate
  \/ Fill
  \/ Iter

Spec == Init /\ [][Next]_vars

-----------------------------------------------------------------------------
(* The Triple joins on their own: a join or negative join of the stored    *)
(* relation T with a Triple node of every attribute kind and every key     *)
(* list, through the same lifecycle.                                       *)

TripleLeft == relation(<<"x", "y">>, StoreT)

TripleJoins ==
  {join(TripleLeft, triple(attr, Vld, "a", "b", SpanTriple), kp[1], kp[2]) :
     attr \in Attrs, kp \in KeyPairs}
TripleNegJoins ==
  {neg_join(TripleLeft, triple(attr, Vld, "a", "b", SpanTriple), kp[1], kp[2]) :
     attr \in Attrs, kp \in KeyPairs \ {<< <<>>, <<>> >>}}

InitTriple ==
  /\ ra \in TripleJoins \cup TripleNegJoins
  /\ nops = 1
  /\ phase = "build"
  /\ used = {}
  /\ epoch = NoEpoch
  /\ use_delta = {}
  /\ out = <<>>
  /\ cfg_debug_assertions \in BOOLEAN

NextTriple ==
  \/ PushFilter
  \/ Eliminate
  \/ Fill
  \/ Iter

SpecTriple == InitTriple /\ [][NextTriple]_vars

-----------------------------------------------------------------------------
(* The Derived node on its own: scanned directly, and as the right operand *)
(* of a join or negative join with a Derived or Stored left operand,       *)
(* through the same lifecycle at every epoch.                              *)

DerivedLefts == {derived(<<"x", "y">>, StoreR), relation(<<"x", "y">>, StoreR)}
DerivedRight == derived(<<"a", "b">>, StoreS)

DerivedTrees ==
  {derived(<<"x", "y">>, StoreR), DerivedRight}
    \cup {join(l, DerivedRight, kp[1], kp[2]) : l \in DerivedLefts, kp \in KeyPairs}
    \cup {neg_join(l, DerivedRight, kp[1], kp[2]) :
            l \in DerivedLefts, kp \in KeyPairs \ {<< <<>>, <<>> >>}}

InitDerived ==
  /\ ra \in DerivedTrees
  /\ nops = 1
  /\ phase = "build"
  /\ used = {}
  /\ epoch = NoEpoch
  /\ use_delta = {}
  /\ out = <<>>
  /\ cfg_debug_assertions \in BOOLEAN

NextDerived ==
  \/ PushFilter
  \/ Eliminate
  \/ Fill
  \/ Iter

SpecDerived == InitDerived /\ [][NextDerived]_vars

-----------------------------------------------------------------------------
(* unit.cartesian_join(R): the unit relation joined on no key with a       *)
(* relation R built with the constructors, through the same lifecycle.     *)

\* InlineFixed data over [x, y] that holds one row twice
DataTwice == << <<Int_(1), Int_(2)>>, <<Int_(1), Int_(2)>>, <<Int_(2), Int_(1)>> >>

UnitSources ==
  {fixed(<<"x", "y">>, DataXY), fixed(<<"x", "y">>, DataTwice),
   fixed(<<"x", "y">>, SubSeq(DataXY, 1, 1)),
   triple(AttrIndexedHist, Vld, "x", "y", SpanTriple),
   derived(<<"x", "y">>, StoreR), relation(<<"x", "y">>, StoreR)}

\* The relations R that unit is joined with
UnitRights ==
  UnitSources
    \cup {filter(r, Cmp("gt", Var("y"), Const(Int_(1)))) : r \in UnitSources}
    \cup {unify(r, "u", e, TRUE, SpanUnify) : r \in UnitSources, e \in UnifyExprs}
    \cup {reorder(r, <<"y", "x">>) : r \in UnitSources}
    \cup {neg_join(r, derived(<<"a", "b">>, StoreS), <<"x">>, <<"a">>) : r \in UnitSources}
    \cup {join(r, derived(<<"a", "b">>, StoreS), <<"x">>, <<"a">>) : r \in UnitSources}

InitUnit ==
  /\ ra \in {cartesian_join(unit, r) : r \in UnitRights}
  /\ nops = 1
  /\ phase = "build"
  /\ used = {}
  /\ epoch = NoEpoch
  /\ use_delta = {}
  /\ out = <<>>
  /\ cfg_debug_assertions \in BOOLEAN

NextUnit ==
  \/ PushFilter
  \/ Eliminate
  \/ Fill
  \/ Iter

SpecUnit == InitUnit /\ [][NextUnit]_vars

-----------------------------------------------------------------------------
(* R.filter(p).filter(q): two Filter nodes over a source, for predicates   *)
(* that are true, false or in error on the rows, through the lifecycle.    *)

\* Predicates over [x, y]: each is true on some row of the sources, false on
\* another and in error (a comparison with a list or a null) on a third
FilterPreds ==
  {Cmp("gt", Var("y"), Const(Int_(1))), Cmp("gt", Var("x"), Const(Int_(1))),
   Cmp("lt", Var("x"), Var("y"))}

FilterSources ==
  {fixed(<<"x", "y">>, DataXY), relation(<<"x", "y">>, StoreT),
   derived(<<"x", "y">>, StoreR), triple(AttrPlain, Vld, "x", "y", SpanTriple)}

InitFilter ==
  /\ ra \in {filter(filter(r, p), q) : r \in FilterSources, p, q \in FilterPreds}
  /\ nops = 2
  /\ phase = "build"
  /\ used = {}
  /\ epoch = NoEpoch
  /\ use_delta = {}
  /\ out = <<>>
  /\ cfg_debug_assertions \in BOOLEAN

NextFilter ==
  \/ Eliminate
  \/ Fill
  \/ Iter

SpecFilter == InitFilter /\ [][NextFilter]_vars

-----------------------------------------------------------------------------
(* R.neg_join(S) and R.neg_join(S).neg_join(S): a negative join of a       *)
(* source R with a Triple, Derived or Stored source S, applied once and    *)
(* twice with the same keys, through the lifecycle.                        *)

NegLefts ==
  {fixed(<<"x", "y">>, DataXY), relation(<<"x", "y">>, StoreT),
   derived(<<"x", "y">>, StoreR), triple(AttrPlain, Vld, "x", "y", SpanTriple)}

NegRights ==
  {triple(at, Vld, "a", "b", SpanTriple) : at \in Attrs}
    \cup {derived(<<"a", "b">>, StoreS), relation(<<"a", "b">>, StoreS)}

NegOnce ==
  {neg_join(r, s, kp[1], kp[2]) :
     r \in NegLefts, s \in NegRights, kp \in KeyPairs \ {<< <<>>, <<>> >>}}

InitNeg ==
  /\ ra \in NegOnce \cup {neg_join(n, n.right, n.left_keys, n.right_keys) : n \in NegOnce}
  /\ nops = 2
  /\ phase = "build"
  /\ used = {}
  /\ epoch = NoEpoch
  /\ use_delta = {}
  /\ out = <<>>
  /\ cfg_debug_assertions \in BOOLEAN

NextNeg ==
  \/ Eliminate
  \/ Fill
  \/ Iter

SpecNeg == InitNeg /\ [][NextNeg]_vars

-----------------------------------------------------------------------------
(* Properties of the operator tree and of the tuples it yields.            *)

\* Whether InnerJoin::iter takes the materialized join for this node
IsMaterialized(j) ==
  \/ j.right.t \in {"Join", "Filter", "Unification"}
  \/ /\ j.right.t \in {"Derived", "Relation"}
     /\ LET ji == join_indices(j, bindings_after_eliminate(j.left, cfg_debug_assertions).ret,
                               bindings_after_eliminate(j.right, cfg_debug_assertions).ret)
        IN ~ji.panic /\ ~join_is_prefix(ji.r)

RECURSIVE IterNodes(_)
\* The nodes of a tree that RelAlgebra::iter is called on when the root is
\* iterated: the right operand of a join is iterated only by the
\* materialized join
IterNodes(r) ==
  {r} \cup (CASE r.t = "Join" ->
                   IterNodes(r.left)
                     \cup (IF IsMaterialized(r) THEN IterNodes(r.right) ELSE {})
              [] r.t = "NegJoin" -> IterNodes(r.left)
              [] r.t \in {"Filter", "Unification"} -> IterNodes(r.parent)
              [] r.t = "Reorder" -> IterNodes(r.relation)
              [] OTHER -> {})

\* The Ok tuples among the items of an iterator
OkTuples(items) == {items[i].t : i \in {n \in 1..Len(items) : items[n].k = "ok"}}

\* C1: every tuple that iter yields for a node has as many columns as the
\* node's bindings_after_eliminate, whichever operator the node is and
\* whichever path produced the tuple.
C1_ArityIsBindingsAfterEliminate ==
  phase = "iter" =>
    \A n \in IterNodes(ra) :
      \A t \in OkTuples(iter(n, epoch, use_delta, cfg_debug_assertions)) :
        Len(t) = Len(bindings_after_eliminate(n, cfg_debug_assertions).ret)

\* The columns a Triple right operand appends to a left tuple, by the
\* strategy TripleRA::join takes: v_no_index_join pushes the entity only
triple_join_columns(r, rji) ==
  IF Len(rji) = 1 /\ rji[1] # 0 /\ ~r.attr.is_ref /\ ~r.attr.should_index
  THEN <<r.bindings[1]>>
  ELSE r.bindings

\* A column no binding names
NoColumn == "?"
\* The columns picked at the given positions
PickColumns(cols, idxs) ==
  [i \in 1..Len(idxs) |->
     IF idxs[i] >= 0 /\ idxs[i] < Len(cols) THEN cols[idxs[i] + 1] ELSE NoColumn]

RECURSIVE IterLayout(_)
\* The columns of a joined tuple before the join's elimination
joined_columns(j) ==
  LET ji == join_indices(j, bindings_after_eliminate(j.left, cfg_debug_assertions).ret,
                         bindings_after_eliminate(j.right, cfg_debug_assertions).ret)
      rsi == right_store_indices(ji.r, Len(bindings_after_eliminate(j.right,
          cfg_debug_assertions).ret))
  IN IterLayout(j.left)
       \o (IF IsMaterialized(j)
           THEN PickColumns(PickColumns(IterLayout(j.right), rsi),
                            right_invert_positions(rsi))
           ELSE IF j.right.t = "Triple" THEN triple_join_columns(j.right, ji.r)
           ELSE j.right.bindings)

\* The symbol carried by each column of the tuples that iter yields for a
\* node, following the way the code builds the tuples
IterLayout(r) ==
  CASE r.t \in {"Fixed", "Triple", "Derived", "Relation"} -> r.bindings
    [] r.t = "Filter" ->
         eliminate_from_tuple(
           IterLayout(r.parent),
           get_eliminate_indices(bindings_after_eliminate(r.parent, cfg_debug_assertions).ret,
               r.to_eliminate))
    [] r.t = "Unification" ->
         eliminate_from_tuple(
           Append(IterLayout(r.parent), r.binding),
           get_eliminate_indices(Append(bindings_after_eliminate(r.parent,
               cfg_debug_assertions).ret, r.binding),
                                 r.to_eliminate))
    [] r.t = "Reorder" ->
         PickColumns(IterLayout(r.relation),
                     [i \in 1..Len(r.new_order) |->
                        IndexOf(bindings_after_eliminate(r.relation, cfg_debug_assertions).ret,
                            r.new_order[i])])
    [] r.t = "NegJoin" ->
         eliminate_from_tuple(
           IterLayout(r.left),
           get_eliminate_indices(bindings_after_eliminate(r.left, cfg_debug_assertions).ret,
               r.to_eliminate))
    [] r.t = "Join" ->
         IF r.right.t = "Fixed" /\ Len(r.right.data) > 1 THEN joined_columns(r)
         ELSE eliminate_from_tuple(
                joined_columns(r),
                get_eliminate_indices(join_bindings_ret(r), r.to_eliminate))

\* A node with the filters of its right-hand source taken away
Unfiltered(r) ==
  CASE r.t \in {"Triple", "Derived", "Relation"} -> [r EXCEPT !.filters = <<>>]
    [] r.t = "Join" /\ r.right.t \in {"Triple", "Derived", "Relation"} ->
         [r EXCEPT !.right.filters = <<>>, !.to_eliminate = {}]
    [] OTHER -> r

\* The expression evaluations of one node when the tree is iterated at
\* (ep, delta): the expressions, the columns of the tuples they are
\* evaluated on, and whether any tuple reaches them
EvalSitesOf(n, ep, delta) ==
  CASE n.t = "Filter" ->
         {[exprs |-> n.pred, layout |-> IterLayout(n.parent),
           fed |-> OkTuples(iter(n.parent, ep, delta, cfg_debug_assertions)) # {}]}
    [] n.t = "Unification" ->
         {[exprs |-> <<n.expr>>, layout |-> IterLayout(n.parent),
           fed |-> OkTuples(iter(n.parent, ep, delta, cfg_debug_assertions)) # {}]}
    [] n.t \in {"Triple", "Derived", "Relation"} ->
         {[exprs |-> n.filters, layout |-> n.bindings,
           fed |-> OkTuples(iter(Unfiltered(n), ep, delta, cfg_debug_assertions)) # {}]}
    [] n.t = "Join" /\ n.right.t \in {"Triple", "Derived", "Relation"}
         /\ ~IsMaterialized(n) ->
         {[exprs |-> n.right.filters, layout |-> joined_columns(n),
           fed |-> OkTuples(iter(Unfiltered(n), ep, delta, cfg_debug_assertions)) # {}]}
    [] OTHER -> {}

\* Whether every variable of the expression reads the column of its symbol
ReadsOwnColumns(e, layout) ==
  \A tm \in Terms(e) :
    tm.k = "var" =>
      tm.idx # Unresolved /\ tm.idx < Len(layout) /\ layout[tm.idx + 1] = tm.sym

\* C2: every filter or unification expression evaluated during iteration
\* is evaluated on tuples whose columns are the bindings its indices were
\* resolved against, on every path, the materialized join of a Derived or
\* Stored right operand included.
C2_ExprsEvaluatedOnResolvedLayout ==
  phase = "iter" =>
    \A n \in IterNodes(ra) :
      \A site \in EvalSitesOf(n, epoch, use_delta) :
        site.fed =>
          \A i \in 1..Len(site.exprs) : ReadsOwnColumns(site.exprs[i], site.layout)

\* C3 as stated: after eliminate_temp_vars(used) on the root of any tree,
\* every symbol of the root's bindings_after_eliminate is in used.
C3_RootBindingsSubsetOfUsed ==
  phase # "build" => Range(bindings_after_eliminate(ra, cfg_debug_assertions).ret) \subseteq used

\* C3, amended: after eliminate_temp_vars(used) the root's
\* bindings_after_eliminate lie within used when the root is a Fixed, Filter,
\* InnerJoin or NegJoin node; a Unification root keeps the symbols of used
\* and its own binding, which it never eliminates; a Triple, Derived or
\* Stored root keeps all its declared bindings and a Reorder root its
\* new_order, whatever used is.
C3_RootBindingsByRootKind ==
  phase # "build" =>
    LET after == bindings_after_eliminate(ra, cfg_debug_assertions).ret
    IN CASE ra.t \in {"Fixed", "Filter", "Join", "NegJoin"} -> Range(after) \subseteq used
         [] ra.t = "Unification" ->
              /\ Range(after) \subseteq used \cup {ra.binding}
              /\ after # <<>> /\ after[Len(after)] = ra.binding
         [] ra.t \in {"Triple", "Derived", "Relation"} -> after = ra.bindings
         [] ra.t = "Reorder" -> after = ra.new_order

\* An InnerJoin root over four columns that was asked for x only
C3_JoinRootKeepsOnlyUsed ==
  /\ phase = "eliminated"
  /\ ra.t = "Join"
  /\ Len(bindings_after_eliminate(ra.left,
      cfg_debug_assertions).ret \o bindings_after_eliminate(ra.right, cfg_debug_assertions).ret) > 1
  /\ used = {"x"}
  /\ bindings_after_eliminate(ra, cfg_debug_assertions).ret = <<"x">>

\* How many times x occurs in a sequence
Count(seq, x) == Cardinality({i \in 1..Len(seq) : seq[i] = x})
\* Whether two sequences hold the same multiset
SameMultiset(s1, s2) == \A x \in Range(s1) \cup Range(s2) : Count(s1, x) = Count(s2, x)
\* The Ok tuples of an iterator, in order
OkSeq(items) ==
  LET oks == SelectSeq(items, LAMBDA it : it.k = "ok")
  IN [i \in 1..Len(oks) |-> oks[i].t]

\* Whether a triple agrees with the left tuple on the bound columns of a
\* join or negative join j whose right operand is a Triple node
TripleAgrees(j, l, tr) ==
  LET lb == bindings_after_eliminate(j.left, cfg_debug_assertions).ret
  IN \A k \in 1..Len(j.right_keys) :
       l[IndexOf(lb, j.left_keys[k]) + 1]
         = (IF j.right_keys[k] = j.right.bindings[1] THEN Int_(tr.e) ELSE Int_(tr.v))

\* The visible triples of the right operand that agree with l, as (e, v)
\* pairs in AEV order
AgreeingTriples(j, l) ==
  EV({tr \in VisibleTriples(j.right.attr, j.right.vld) : TripleAgrees(j, l, tr)})

\* The reference join of a left tuple with a Triple right operand: l ++ [e, v]
\* for every agreeing visible triple, kept when all filters hold, with the
\* join's eliminate indices removed
ReferenceJoinOne(j, l) ==
  LET cands == [i \in 1..Len(AgreeingTriples(j, l)) |-> l \o AgreeingTriples(j, l)[i]]
      kept == SelectSeq(cands, LAMBDA c : preds_on(j.right.filters, c) = "true")
      elim == get_eliminate_indices(join_bindings_ret(j), j.to_eliminate)
  IN [i \in 1..Len(kept) |-> eliminate_from_tuple(kept[i], elim)]

\* The reference join over the left operand's tuples
ReferenceJoin(j, ep, delta) ==
  LET ls == OkSeq(iter(j.left, ep, delta, cfg_debug_assertions))
  IN Flatten([i \in 1..Len(ls) |-> ReferenceJoinOne(j, ls[i])])

\* C4: for every combination of bound right columns, with_history and value
\* kind, the positive Triple join yields the same multiset of tuples as the
\* reference join.
C4_TripleJoinIsReferenceJoin ==
  (phase = "iter" /\ ra.t = "Join" /\ ra.right.t = "Triple") =>
    SameMultiset(OkSeq(out), ReferenceJoin(ra, epoch, use_delta))

\* What a negative join with a Triple right operand owes for one left
\* tuple: an EntityIdExpected error when the strategy reads a column of l as
\* an entity and the value is none, else l itself (less the eliminate
\* indices) exactly when no visible triple agrees with l on the join columns
NegJoinOwes(j, l) ==
  LET ji == join_indices(j, bindings_after_eliminate(j.left, cfg_debug_assertions).ret,
      j.right.bindings)
      col == entity_column(j.right, ji.l, ji.r)
      elim == get_eliminate_indices(bindings_after_eliminate(j.left, cfg_debug_assertions).ret,
          j.to_eliminate)
  IN IF col # NotFound /\ get_entity_id(l[col + 1]) = NoEntity
     THEN <<Err(EntityIdExpected(l[col + 1], j.right.span))>>
     ELSE IF AgreeingTriples(j, l) # <<>> THEN <<>>
     ELSE <<Ok(eliminate_from_tuple(l, elim))>>

\* C5 as stated: for every Triple negative-join strategy, with or without
\* history, a left tuple is emitted if and only if no triple visible at vld
\* equals it on all join columns.
C5_NegJoinEmitsIffNoTriple ==
  (phase = "iter" /\ ra.t = "NegJoin" /\ ra.right.t = "Triple") =>
    LET ls == OkSeq(iter(ra.left, epoch, use_delta, cfg_debug_assertions))
        elim == get_eliminate_indices(bindings_after_eliminate(ra.left,
            cfg_debug_assertions).ret, ra.to_eliminate)
    IN OkSeq(out)
         = Flatten([i \in 1..Len(ls) |->
                      IF AgreeingTriples(ra, ls[i]) # <<>> THEN <<>>
                      ELSE <<eliminate_from_tuple(ls[i], elim)>>])

\* C5, amended: for every Triple negative-join strategy, with or without
\* history, a left tuple whose value in the entity position of the strategy
\* (ev, e and v_ref joins) is an entity id, and any left tuple in the indexed
\* and unindexed value strategies, is emitted if and only if no triple
\* visible at vld equals it on all join columns; a left tuple whose value in
\* the entity position is no entity id yields the EntityIdExpected error and
\* is not emitted.  The output is these items in the order of the left
\* tuples.
C5_NegJoinEmitsIffNoTripleForEntities ==
  (phase = "iter" /\ ra.t = "NegJoin" /\ ra.right.t = "Triple") =>
    LET ls == OkSeq(iter(ra.left, epoch, use_delta, cfg_debug_assertions))
    IN out = Flatten([i \in 1..Len(ls) |-> NegJoinOwes(ra, ls[i])])

\* A negative join on the entity column of a history-keeping attribute that
\* lets through the entity whose only triple is not yet visible at vld and
\* holds back an entity with a visible triple
C5_NegJoinSeesHistory ==
  /\ phase = "iter"
  /\ ra.t = "NegJoin"
  /\ ra.right.t = "Triple"
  /\ ra.right.attr.with_history
  /\ ra.right_keys = <<"a">>
  /\ used = {"x", "y", "a", "b", "u"}
  /\ Ok(<<Int_(3), Int_(1)>>) \in Range(out)
  /\ Ok(<<Int_(1), Int_(2)>>) \notin Range(out)
  /\ \E i \in 1..Len(out) : out[i].k = "err"

\* What the Triple join or negative join j yields for the one left tuple l
ServedAlone(j, l) ==
  LET ji == join_indices(j, bindings_after_eliminate(j.left, cfg_debug_assertions).ret,
      j.right.bindings)
  IN IF j.t = "Join"
     THEN triple_join(j.right, <<Ok(l)>>, ji.l, ji.r,
                      get_eliminate_indices(join_bindings_ret(j), j.to_eliminate))
     ELSE triple_neg_join(j.right, <<Ok(l)>>, ji.l, ji.r,
                          get_eliminate_indices(bindings_after_eliminate(j.left,
                              cfg_debug_assertions).ret,
                                                j.to_eliminate))

\* C10: in every Triple join strategy that reads a left column as an entity
\* (ev_join, e_join, v_ref_join and their negative variants), a left tuple
\* whose value at that column is no entity id yields exactly the
\* EntityIdExpected error carrying that value and the node's span: no output
\* tuple, and no storage call for that tuple.
C10_NonEntityYieldsEntityIdExpected ==
  (phase = "iter" /\ ra.t \in {"Join", "NegJoin"} /\ ra.right.t = "Triple") =>
    LET ji == join_indices(ra, bindings_after_eliminate(ra.left, cfg_debug_assertions).ret,
        ra.right.bindings)
        col == entity_column(ra.right, ji.l, ji.r)
    IN col # NotFound =>
         \A l \in OkTuples(iter(ra.left, epoch, use_delta, cfg_debug_assertions)) :
           get_entity_id(l[col + 1]) = NoEntity =>
             /\ ServedAlone(ra, l) = <<Err(EntityIdExpected(l[col + 1], ra.right.span))>>
             /\ triple_storage_calls(ra.right, l, ji.l, ji.r, ra.t = "NegJoin") = {}

\* C6: a Derived node evaluated with epoch Some(0) while its store is in
\* use_delta contributes no rows whatever its store holds: scanned directly
\* it yields the empty sequence, and as the right operand of an inner join
\* (by prefix scan or materialized) the join yields no tuple.
C6_EmptyAtEpochZeroInDelta ==
  (phase = "iter" /\ epoch = 0) =>
    /\ (ra.t = "Derived" /\ ra.storage \in use_delta) => out = <<>>
    /\ (ra.t = "Join" /\ ra.right.t = "Derived" /\ ra.right.storage \in use_delta)
         => OkSeq(out) = <<>>

\* A join whose right operand S holds rows that the join yields when no
\* epoch is given, iterated at epoch 0 with S in use_delta
C6_JoinWithDeltaAtEpochZero ==
  /\ phase = "iter"
  /\ epoch = 0
  /\ ra.t = "Join"
  /\ ra.right.t = "Derived"
  /\ ra.right.storage \in use_delta
  /\ DerivedRows(ra.right.storage, 0) # {}
  /\ OkSeq(iter(ra, NoEpoch, {}, cfg_debug_assertions)) # <<>>
  /\ out = <<>>

\* The rows that a Derived node is to read at (ep, delta): none at epoch 0
\* in use_delta, the rows of epoch ep - 1 when in use_delta, else the
\* accumulated relation
RowsAtScanEpoch(d, ep, delta) ==
  IF ep # NoEpoch /\ d.storage \in delta
  THEN (IF ep = 0 THEN {} ELSE DerivedRows(d.storage, ep - 1))
  ELSE DerivedRows(d.storage, 0)

\* The rows among rows that equal the left tuple l on the join columns of j
RowsAgreeing(j, l, rows) ==
  LET ji == join_indices(j, bindings_after_eliminate(j.left, cfg_debug_assertions).ret,
      j.right.bindings)
  IN SortTuples({r \in rows :
                   \A k \in 1..Len(ji.l) : l[ji.l[k] + 1] = r[ji.r[k] + 1]})

\* The equi-join of the left tuples of j with the given rows of its right
\* operand: l ++ row, kept when the right operand's filters hold, less the
\* join's eliminate indices
JoinWithRows(j, ep, delta, rows) ==
  LET ls == OkSeq(iter(j.left, ep, delta, cfg_debug_assertions))
      elim == get_eliminate_indices(join_bindings_ret(j), j.to_eliminate)
      one(l) ==
        LET cands == [i \in 1..Len(RowsAgreeing(j, l, rows)) |->
                        l \o RowsAgreeing(j, l, rows)[i]]
            kept == SelectSeq(cands, LAMBDA c : preds_on(j.right.filters, c) = "true")
        IN [i \in 1..Len(kept) |-> eliminate_from_tuple(kept[i], elim)]
  IN Flatten([i \in 1..Len(ls) |-> one(ls[i])])

\* The left tuples of the negative join j that no row among rows equals on
\* the join columns, less the eliminate indices
NegJoinWithRows(j, ep, delta, rows) ==
  LET ls == OkSeq(iter(j.left, ep, delta, cfg_debug_assertions))
      elim == get_eliminate_indices(bindings_after_eliminate(j.left, cfg_debug_assertions).ret,
          j.to_eliminate)
  IN Flatten([i \in 1..Len(ls) |->
                IF RowsAgreeing(j, ls[i], rows) # <<>> THEN <<>>
                ELSE <<eliminate_from_tuple(ls[i], elim)>>])

\* The direct scan of a Derived node over the given rows
ScanOfRows(d, rows) ==
  SelectSeq(SortTuples(rows), LAMBDA r : preds_on(d.filters, r) = "true")

\* DerivedRA::iter with the given rows in place of the rows its scan reads:
\* the rows in store order, through the node's filters as they are filled
DerivedIterOver(d, rows) ==
  LET it == [i \in 1..Len(SortTuples(rows)) |-> Ok(SortTuples(rows)[i])]
  IN IF d.filters = <<>> THEN it ELSE filter_iter(d.filters, it)

\* What C7 says of the positive paths, each read against the rows of
\* scan_epoch: the direct scan of the root; the scan of a Derived left
\* operand; the inner join by prefix scan or bounded prefix scan; and the
\* materialized join, whose output is that of materialized_join over the
\* right operand's iter on those rows, with or without pushed filters
DerivedReadsAtScanEpoch ==
  /\ ra.t = "Derived" =>
       OkSeq(out) = ScanOfRows(ra, RowsAtScanEpoch(ra, epoch, use_delta))
  /\ (ra.t \in {"Join", "NegJoin"} /\ ra.left.t = "Derived") =>
       iter(ra.left, epoch, use_delta, cfg_debug_assertions)
         = DerivedIterOver(ra.left, RowsAtScanEpoch(ra.left, epoch, use_delta))
  /\ (ra.t = "Join" /\ ra.right.t = "Derived"
        /\ (ra.right.filters = <<>> \/ ~IsMaterialized(ra))) =>
       SameMultiset(OkSeq(out),
                    JoinWithRows(ra, epoch, use_delta,
                                 RowsAtScanEpoch(ra.right, epoch, use_delta)))
  /\ (ra.t = "Join" /\ ra.right.t = "Derived" /\ IsMaterialized(ra)) =>
       out = materialized_join(
               ra, DerivedIterOver(ra.right, RowsAtScanEpoch(ra.right, epoch, use_delta)),
               iter(ra.left, epoch, use_delta, cfg_debug_assertions),
               get_eliminate_indices(join_bindings_ret(ra), ra.to_eliminate),
               cfg_debug_assertions)

\* C7 as stated: every scan a Derived node issues, in iter, prefix_join and
\* neg_join, reads at scan_epoch (epoch - 1 when the store is in use_delta,
\* 0 otherwise).
C7_EveryDerivedScanAtScanEpoch ==
  phase = "iter" =>
    /\ DerivedReadsAtScanEpoch
    /\ (ra.t = "NegJoin" /\ ra.right.t = "Derived"
          /\ ~derived_is_empty_delta(ra.right, epoch, use_delta)) =>
         OkSeq(out) = NegJoinWithRows(ra, epoch, use_delta,
                                      RowsAtScanEpoch(ra.right, epoch, use_delta))

\* C7, amended: the scans a Derived node issues in iter and prefix_join read
\* at scan_epoch (epoch - 1 when the store is in use_delta, 0 otherwise); the
\* scan of neg_join takes no epoch and reads the accumulated relation
\* (epoch 0) whatever epoch and use_delta are.
C7_DerivedScansAtScanEpochButNegJoin ==
  phase = "iter" =>
    /\ DerivedReadsAtScanEpoch
    /\ (ra.t = "NegJoin" /\ ra.right.t = "Derived") =>
         OkSeq(out) = NegJoinWithRows(ra, epoch, use_delta,
                                      DerivedRows(ra.right.storage, 0))

\* At epoch 2 with S in use_delta, a join of R with S that yields tuples from
\* the rows of epoch 1 and fewer than it yields from the accumulated S
C7_JoinReadsLatestDelta ==
  /\ phase = "iter"
  /\ epoch = 2
  /\ use_delta = {StoreS}
  /\ ra.t = "Join"
  /\ ra.left.t = "Derived"
  /\ ra.right.t = "Derived"
  /\ OkSeq(out) # <<>>
  /\ Len(OkSeq(out)) < Len(OkSeq(iter(ra, NoEpoch, {}, cfg_debug_assertions)))

\* C8: for every operator, once its output sequence has yielded an error
\* item it yields no further item: an error item is the last item of the
\* sequence.
C8_FirstErrorEndsSequence ==
  phase = "iter" => \A i \in 1..Len(out) : out[i].k = "err" => i = Len(out)

\* The tuple t without the columns at the given positions
WithoutColumns(t, positions) ==
  SelectIdx(t, 0, positions)

\* What the Unification u owes for one parent tuple t: one tuple per element
\* of the list, in list order, when spread; BadSpreadUnification when spread
\* and not a list; one tuple with the value appended when not spread; the
\* evaluation error when expr fails on t
UnificationOwes(u, t) ==
  LET res == expr_eval(u.expr, t)
      positions == get_eliminate_indices(
                     Append(bindings_after_eliminate(u.parent, cfg_debug_assertions).ret,
                         u.binding), u.to_eliminate)
      elems == get_list(res.v)
  IN IF ~res.ok THEN <<Err(ErrEval)>>
     ELSE IF ~u.is_multi THEN <<Ok(WithoutColumns(t \o <<res.v>>, positions))>>
     ELSE IF res.v[1] # KList THEN <<Err(BadSpreadUnification(u.span))>>
     ELSE [i \in 1..Len(elems) |-> Ok(WithoutColumns(t \o <<elems[i]>>, positions))]

\* The sequence the Unification u owes over the items of its parent, an item
\* that is not a tuple passing through in its place
UnificationOwesOver(u, items) ==
  Flatten([i \in 1..Len(items) |->
             IF items[i].k = "ok" THEN UnificationOwes(u, items[i].t) ELSE <<items[i]>>])

\* C9: every Unification node that is iterated emits, for each tuple t of its
\* child in order: when is_multi and expr is a list of n elements, n tuples in
\* list order, each t with that element appended; when is_multi and the value
\* is not a list, the BadSpreadUnification error; when not multi, one tuple, t
\* with the value appended; elimination is applied to the extended tuple.
C9_UnificationPerTuple ==
  phase = "iter" =>
    \A u \in {n \in IterNodes(ra) : n.t = "Unification"} :
      iter(u, epoch, use_delta, cfg_debug_assertions)
        = CutPanic(UnificationOwesOver(u, iter(u.parent, epoch, use_delta, cfg_debug_assertions)))

\* A spread Unification at the root that has eliminated a column and has
\* emitted both BadSpreadUnification and the tuples of a list
C9_SpreadWithListAndScalar ==
  /\ phase = "iter"
  /\ ra.t = "Unification"
  /\ ra.is_multi
  /\ get_eliminate_indices(Append(bindings_after_eliminate(ra.parent, cfg_debug_assertions).ret,
      ra.binding),
                           ra.to_eliminate) # {}
  /\ \E i \in 1..Len(out) : out[i] = Err(BadSpreadUnification(ra.span))
  /\ \E i \in 1..(Len(out) - 1) :
       /\ out[i].k = "ok" /\ out[i + 1].k = "ok"
       /\ out[i].t[Len(out[i].t)] = Int_(1)
       /\ out[i + 1].t[Len(out[i + 1].t)] = Int_(2)

\* C11: for every relation R built with the constructors,
\* unit.cartesian_join(R) yields the same multiset of tuples as R, rows that
\* R yields more than once included (R's tuples less the columns the join
\* itself eliminates, which are none when used holds every symbol).
C11_UnitJoinIsIdentity ==
  (phase = "iter" /\ ra.t = "Join" /\ is_unit(ra.left) /\ ra.left_keys = <<>>) =>
    LET rs == OkSeq(iter(ra.right, epoch, use_delta, cfg_debug_assertions))
        elim == get_eliminate_indices(join_bindings_ret(ra), ra.to_eliminate)
    IN SameMultiset(OkSeq(out),
                    [i \in 1..Len(rs) |-> eliminate_from_tuple(rs[i], elim)])

\* An expression as it is before fill_binding_indices
RawExpr(e) ==
  [e EXCEPT !.a = [@ EXCEPT !.idx = Unresolved], !.b = [@ EXCEPT !.idx = Unresolved]]

RECURSIVE Raw(_)
\* A tree as the constructors built it, before eliminate_temp_vars and
\* fill_normal_binding_indices
Raw(r) ==
  CASE r.t = "Fixed" -> [r EXCEPT !.to_eliminate = {}]
    [] r.t \in {"Triple", "Derived", "Relation"} ->
         [r EXCEPT !.filters = [i \in 1..Len(@) |-> RawExpr(@[i])]]
    [] r.t = "Filter" ->
         [r EXCEPT !.parent = Raw(@), !.to_eliminate = {},
                   !.pred = [i \in 1..Len(@) |-> RawExpr(@[i])]]
    [] r.t = "Unification" ->
         [r EXCEPT !.parent = Raw(@), !.to_eliminate = {}, !.expr = RawExpr(@)]
    [] r.t = "Reorder" -> [r EXCEPT !.relation = Raw(@)]
    [] r.t \in {"Join", "NegJoin"} ->
         [r EXCEPT !.left = Raw(@), !.right = Raw(@), !.to_eliminate = {}]

\* The items the tree r yields when it is taken through the lifecycle
Lifecycle(r, u, ep, delta) ==
  iter(fill_normal_binding_indices(eliminate_temp_vars(r, u, cfg_debug_assertions).r,
      cfg_debug_assertions).r, ep, delta, cfg_debug_assertions)

\* C12: for a relation R and predicates p and q, each of which may be true,
\* false or in error on a tuple, R.filter(p).filter(q) and
\* R.filter(q).filter(p) yield the same sequence of items.
C12_FiltersCommute ==
  (phase = "iter" /\ ra.t = "Filter" /\ ra.parent.t = "Filter") =>
    LET r == Raw(ra.parent.parent)
        p == Raw(ra).parent.pred[1]
        q == Raw(ra).pred[1]
    IN /\ Raw(ra) = filter(filter(r, p), q)
       /\ out = Lifecycle(filter(filter(r, q), p), used, epoch, use_delta)

\* C12, amended: R.filter(p).filter(q) and R.filter(q).filter(p) yield the
\* same tuples in the same order; they yield the same items when neither
\* yields an error.  An error item of one order may be missing from the
\* other: a tuple on which the inner predicate is in error yields the error
\* in one order and is dropped in the other when the other predicate is
\* false on it.
C12_FiltersCommuteOnTuples ==
  (phase = "iter" /\ ra.t = "Filter" /\ ra.parent.t = "Filter") =>
    LET r == Raw(ra.parent.parent)
        p == Raw(ra).parent.pred[1]
        q == Raw(ra).pred[1]
        other == Lifecycle(filter(filter(r, q), p), used, epoch, use_delta)
    IN /\ OkSeq(out) = OkSeq(other)
       /\ (OkSeq(out) = [i \in 1..Len(out) |-> out[i].t]
             /\ OkSeq(other) = [i \in 1..Len(other) |-> other[i].t]) => out = other

\* Two filters over a source that yield a tuple and an error in one order
\* and the same tuples with other items in the other order
C12_OrdersDifferInErrors ==
  /\ phase = "iter"
  /\ ra.t = "Filter"
  /\ ra.parent.t = "Filter"
  /\ OkSeq(out) # <<>>
  /\ \E i \in 1..Len(out) : out[i].k = "err"
  /\ out # Lifecycle(filter(filter(Raw(ra.parent.parent), Raw(ra).pred[1]),
                            Raw(ra).parent.pred[1]),
                     used, epoch, use_delta)

\* C13: applying the same negation twice changes nothing: for a left
\* relation R and a source S with the same keys, R.neg_join(S).neg_join(S)
\* yields exactly the tuples of R.neg_join(S), in the same order.
C13_NegJoinTwiceIsOnce ==
  (phase = "iter" /\ ra.t = "NegJoin" /\ ra.left.t = "NegJoin"
     /\ Raw(ra.left.right) = Raw(ra.right)
     /\ ra.left.left_keys = ra.left_keys /\ ra.left.right_keys = ra.right_keys) =>
    OkSeq(out) = OkSeq(Lifecycle(Raw(ra.left), used, epoch, use_delta))

\* A negation applied twice that has held back some tuple of R, let others
\* through and eliminated a column
C13_NegationTwiceHoldsBack ==
  /\ phase = "iter"
  /\ ra.t = "NegJoin"
  /\ ra.left.t = "NegJoin"
  /\ ra.left.left.t = "Relation"
  /\ ra.to_eliminate # {}
  /\ OkSeq(out) # <<>>
  /\ Len(OkSeq(out)) < Len(OkSeq(iter(ra.left.left, epoch, use_delta, cfg_debug_assertions)))
  /\ \A i \in 1..Len(out) : Len(out[i].t) < Len(ra.left.left.bindings)

\* The nodes of the tree that have a to_eliminate set
EliminatingNodes(r) ==
  {n \in Nodes(r) : n.t \in {"Fixed", "Filter", "Unification", "Join", "NegJoin"}}

\* C14 as stated: after eliminate_temp_vars(used), every node that has a
\* to_eliminate set has to_eliminate within its own
\* bindings_before_eliminate(), read after the children were eliminated.
C14_ToEliminateWithinBindingsBefore ==
  phase # "build" =>
    \A n \in EliminatingNodes(ra) :
      n.to_eliminate \subseteq Range(bindings_before_eliminate(n, cfg_debug_assertions).ret)

\* C14, amended: after eliminate_temp_vars(used), every node that has a
\* to_eliminate set has to_eliminate within the bindings_before_eliminate()
\* it had when the call began, before its children eliminated; at the root
\* to_eliminate is exactly the symbols among those that are not in used (a
\* Unification's own binding excepted, which is never marked).
C14_ToEliminateWithinBindingsAtCall ==
  phase # "build" =>
    /\ \A n \in EliminatingNodes(ra) :
         n.to_eliminate \subseteq Range(bindings_before_eliminate(Raw(n), cfg_debug_assertions).ret)
    /\ ra \in EliminatingNodes(ra) =>
         ra.to_eliminate
           = {b \in Range(bindings_before_eliminate(Raw(ra), cfg_debug_assertions).ret) :
                b \notin used /\ ~(ra.t = "Unification" /\ b = ra.binding)}

\* A Filter whose to_eliminate holds a symbol that its child has eliminated
\* already, so that it is no longer among the Filter's bindings before
\* eliminate
C14_FilterMarksWhatChildDropped ==
  /\ phase = "eliminated"
  /\ ra.t = "Filter"
  /\ ra.to_eliminate # {}
  /\ \E b \in ra.to_eliminate :
       /\ b \notin Range(bindings_before_eliminate(ra, cfg_debug_assertions).ret)
       /\ b \in Range(bindings_before_eliminate(Raw(ra), cfg_debug_assertions).ret)

-----------------------------------------------------------------------------
(* The bindings of a join: an InnerJoin is built over children with        *)
(* disjoint symbols, each node binding distinct symbols, and               *)
(* eliminate_temp_vars is called on it.                                    *)

\* Left children, one of each kind
BindLefts ==
  {fixed(<<"x", "y">>, DataXY), triple(AttrPlain, Vld, "x", "y", SpanTriple),
   derived(<<"x", "y">>, StoreR), relation(<<"x", "y">>, StoreR),
   filter(fixed(<<"x", "y">>, DataXY), Cmp("gt", Var("y"), Const(Int_(1)))),
   unify(fixed(<<"x", "y">>, DataXY), "u", Val(Var("y")), FALSE, SpanUnify),
   reorder(fixed(<<"x", "y">>, DataXY), <<"y", "x">>)}
BindRights ==
  {triple(AttrPlain, Vld, "a", "b", SpanTriple), derived(<<"a", "b">>, StoreS),
   relation(<<"a", "b">>, StoreS), fixed(<<"a", "b">>, DataAB),
   filter(derived(<<"a", "b">>, StoreS), Cmp("gt", Var("b"), Const(Int_(1)))),
   unify(fixed(<<"a", "b">>, DataAB), "u", Val(Var("b")), FALSE, SpanUnify),
   reorder(fixed(<<"a", "b">>, DataAB), <<"b", "a">>)}
BindKeyPairs == {<< <<>>, <<>> >>, << <<"x">>, <<"a">> >>}

InitBind ==
  /\ ra \in BindLefts
  /\ nops = 0
  /\ phase = "build"
  /\ used = {}
  /\ epoch = NoEpoch
  /\ use_delta = {}
  /\ out = <<>>
  /\ cfg_debug_assertions \in BOOLEAN

\* RelAlgebra::join over children with disjoint symbols
JoinDisjoint ==
  /\ phase = "build"
  /\ nops = 0
  /\ \E right \in BindRights, kp \in BindKeyPairs :
       /\ KeysFit(ra, right, kp)
       /\ Built(join(ra, right, kp[1], kp[2]))

NextBind ==
  \/ JoinDisjoint
  \/ Eliminate

SpecBind == InitBind /\ [][NextBind]_vars

\* A list that holds no symbol twice
NoDuplicate(s) == \A i, k \in 1..Len(s) : s[i] = s[k] => i = k

\* C15: for an InnerJoin whose two children have disjoint raw output
\* symbols, InnerJoin.bindings() holds no symbol twice, before and after
\* eliminate_temp_vars(used), so the uniqueness assertion in bindings()
\* never fires: with debug assertions bindings() returns the list it
\* returns without them, and eliminate_temp_vars does not end in a panic.
C15_JoinBindingsUnique ==
  \A n \in Nodes(ra) :
    (n.t = "Join" /\ Symbols(n.left) \cap Symbols(n.right) = {}) =>
      /\ NoDuplicate(join_bindings_ret(n))
      /\ ~join_bindings(n, TRUE).panic
      /\ join_bindings(n, TRUE).ret = join_bindings_ret(n)
      /\ phase # "panicked"

\* A keyed join over children with disjoint symbols after eliminate_temp_vars
\* has dropped a column on each side and kept one on each side
C15_JoinEliminatedOnBothSides ==
  /\ phase = "eliminated"
  /\ ra.t = "Join"
  /\ ra.left_keys # <<>>
  /\ Symbols(ra.left) \cap Symbols(ra.right) = {}
  /\ Len(bindings_after_eliminate(ra.left, cfg_debug_assertions).ret) = 1
  /\ Len(bindings_after_eliminate(ra.right, cfg_debug_assertions).ret) = 1
  /\ Len(bindings_before_eliminate(Raw(ra.left), cfg_debug_assertions).ret) = 2
  /\ Len(join_bindings_ret(ra)) = 2

-----------------------------------------------------------------------------
(* The keys of nested joins: joins and negative joins one and two levels   *)
(* deep, each keyed on output symbols of its children, through the         *)
(* lifecycle.                                                              *)

KeyLefts == {fixed(<<"x", "y">>, DataXY), relation(<<"x", "y">>, StoreT)}
KeySources ==
  {triple(AttrPlain, Vld, "a", "b", SpanTriple), derived(<<"a", "b">>, StoreS),
   relation(<<"a", "b">>, StoreS)}
KeyInnerRights == KeySources \cup {fixed(<<"a", "b">>, DataAB)}
KeyInnerPairs == {<< <<"x">>, <<"a">> >>, << <<"y", "x">>, <<"b", "a">> >>}
\* One level: a join or a negative join of a left leaf
KeyInner ==
  {join(l, r, kp[1], kp[2]) : l \in KeyLefts, r \in KeyInnerRights, kp \in KeyInnerPairs}
  \cup {neg_join(l, r, kp[1], kp[2]) : l \in KeyLefts, r \in KeySources,
                                       kp \in KeyInnerPairs}
KeyOuterSources == {derived(<<"c", "d">>, StoreR), relation(<<"c", "d">>, StoreT)}
\* Two levels: the one-level tree joined on the left of a third relation,
\* and a left leaf joined with a join on its right
KeyOuter ==
  {join(i, r, <<k>>, <<"c">>) :
     i \in KeyInner, r \in KeyOuterSources \cup {fixed(<<"c", "d">>, DataAB)},
     k \in {"x", "y"}}
  \cup {neg_join(i, r, <<k>>, <<"c">>) :
          i \in KeyInner, r \in KeyOuterSources, k \in {"x", "y"}}
  \cup {join(l, join(r, o, <<"b">>, <<"c">>), <<"x">>, <<"a">>) :
          l \in KeyLefts, r \in KeySources, o \in KeyOuterSources}

InitKeys ==
  /\ ra \in KeyInner \cup KeyOuter
  /\ nops = 2
  /\ phase = "build"
  /\ used = {}
  /\ epoch = NoEpoch
  /\ use_delta = {}
  /\ out = <<>>
  /\ cfg_debug_assertions \in BOOLEAN

NextKeys ==
  \/ Eliminate
  \/ Fill
  \/ Iter

SpecKeys == InitKeys /\ [][NextKeys]_vars

\* The joins and negative joins of a tree
JoinNodes(r) == {n \in Nodes(r) : n.t \in {"Join", "NegJoin"}}

\* C16: after eliminate_temp_vars(used), in every InnerJoin and NegJoin
\* whose keys were output symbols of the respective child before
\* elimination, each left key is still in left.bindings_after_eliminate()
\* and each right key in right.bindings_after_eliminate(), so
\* Joiner::join_indices finds every key.
C16_KeysSurviveElimination ==
  phase # "build" =>
    \A n \in JoinNodes(ra) :
      (/\ Range(n.left_keys) \subseteq Range(bindings_after_eliminate(Raw(n.left),
          cfg_debug_assertions).ret)
       /\ Range(n.right_keys) \subseteq Range(bindings_after_eliminate(Raw(n.right),
           cfg_debug_assertions).ret)) =>
        /\ Range(n.left_keys) \subseteq Range(bindings_after_eliminate(n.left,
            cfg_debug_assertions).ret)
        /\ Range(n.right_keys) \subseteq Range(bindings_after_eliminate(n.right,
            cfg_debug_assertions).ret)
        /\ ~join_indices(n, bindings_after_eliminate(n.left, cfg_debug_assertions).ret,
                         bindings_after_eliminate(n.right, cfg_debug_assertions).ret).panic

\* A join two levels deep drained after eliminate_temp_vars ran with a used
\* set that holds none of the keys: the inner join keeps the key of the
\* outer join and its own, and rows come out
C16_NestedKeysOutsideUsed ==
  /\ phase = "iter"
  /\ ra.t = "Join"
  /\ ra.left.t = "Join"
  /\ used = {}
  /\ Range(ra.left_keys) \subseteq Range(bindings_after_eliminate(ra.left,
      cfg_debug_assertions).ret)
  /\ Range(ra.left.left_keys) \cap Range(ra.left_keys) = {}
  /\ ra.left.left.t = "Fixed"
  /\ ra.left.left.to_eliminate = {}
  /\ out # <<>>
  /\ out[1].k = "ok"

-----------------------------------------------------------------------------
(* Range scans of the Triple node.                                         *)

\* Whether the filters of the Triple right operand of the join j yield a
\* value bound while j serves the left tuple l: by compute_single_bound in
\* the cartesian join, by eval_bound and compute_bounds in the e_join
ValueBoundFound(j, l) ==
  IF j.right_keys = <<>>
  THEN j.right.filters # <<>>
       /\ compute_single_bound(j.right.filters, j.right.bindings[2]).some
  ELSE e_join_bounds(j.right, l, FALSE).some

\* A join whose Triple right operand has no bound column (cartesian) or
\* the entity column alone
CartesianOrEntityJoin(j) ==
  /\ j.t = "Join"
  /\ j.right.t = "Triple"
  /\ j.right_keys \in {<<>>, <<j.right.bindings[1]>>}

\* C17 as stated: a Triple scan whose filters yield a value bound issues a
\* bounded range scan, triple_av_range_scan (or its _before_ variant) with no
\* column bound and triple_ae_range_scan (or its _before_ variant) with the
\* entity bound, and the tuples are those whose value passes the filter.
C17_BoundIssuesRangeScan ==
  (phase = "iter" /\ CartesianOrEntityJoin(ra)) =>
    LET ji == join_indices(ra, bindings_after_eliminate(ra.left, cfg_debug_assertions).ret,
        ra.right.bindings)
    IN \A l \in OkTuples(iter(ra.left, epoch, use_delta, cfg_debug_assertions)) :
         ValueBoundFound(ra, l) =>
           /\ triple_storage_calls(ra.right, l, ji.l, ji.r, FALSE)
                \subseteq (IF ra.right_keys = <<>>
                           THEN {"triple_av_range_scan", "triple_av_range_before_scan"}
                           ELSE {"triple_ae_range_scan", "triple_ae_range_before_scan"})
           /\ SameMultiset(OkSeq(ServedAlone(ra, l)), ReferenceJoinOne(ra, l))

-----------------------------------------------------------------------------
(* The frame of a negative join.                                           *)

RECURSIVE DropNamed(_, _, _)
\* The values of the tuple l whose column, named by the bindings b, is not
\* in elim
DropNamed(l, b, elim) ==
  IF l = <<>> THEN <<>>
  ELSE (IF b # <<>> /\ Head(b) \in elim THEN <<>> ELSE <<Head(l)>>)
       \o DropNamed(Tail(l), IF b = <<>> THEN <<>> ELSE Tail(b), elim)

\* The left tuple l of the negative join j without the columns that j
\* eliminates: the columns of l named, in the left child's bindings after
\* eliminate, by a symbol of j.to_eliminate
WithoutOwnEliminated(j, l) ==
  DropNamed(l, bindings_after_eliminate(j.left, cfg_debug_assertions).ret, j.to_eliminate)

RECURSIVE IsSubsequence(_, _)
\* Whether s can be obtained from t by leaving elements out
IsSubsequence(s, t) ==
  IF s = <<>> THEN TRUE
  ELSE IF t = <<>> THEN FALSE
  ELSE IF Head(s) = Head(t) THEN IsSubsequence(Tail(s), Tail(t))
  ELSE IsSubsequence(s, Tail(t))

\* C18: every tuple a NegJoin emits is a tuple of its left child with only
\* the NegJoin's own to_eliminate columns removed: no column of the right
\* operand is appended and the remaining left values keep their values and
\* relative order, for the Triple, Derived and Stored right operands; the
\* tuples come in the order of the left child's tuples.
C18_NegJoinEmitsLeftTuples ==
  (phase = "iter" /\ ra.t = "NegJoin") =>
    LET ls == OkSeq(iter(ra.left, epoch, use_delta, cfg_debug_assertions))
    IN IsSubsequence(OkSeq(out), [i \in 1..Len(ls) |-> WithoutOwnEliminated(ra, ls[i])])

\* A negative join over a stored left relation that has been drained after
\* it eliminated one of the two left columns: some left tuples came through,
\* shorter than they were, and some were held back
C18_NegJoinProjectsLeft ==
  /\ phase = "iter"
  /\ ra.t = "NegJoin"
  /\ ra.left.t = "Relation"
  /\ Cardinality(ra.to_eliminate) = 1
  /\ OkSeq(out) # <<>>
  /\ \A i \in 1..Len(OkSeq(out)) : Len(OkSeq(out)[i]) = 1
  /\ Len(OkSeq(out)) < Len(OkSeq(iter(ra.left, epoch, use_delta, cfg_debug_assertions)))

-----------------------------------------------------------------------------
(* The order of the output: Filter and Unification over the sources, and   *)
(* joins by every execution path, through the lifecycle.                   *)

OrderLefts == {fixed(<<"x", "y">>, DataXY), relation(<<"x", "y">>, StoreT)}
OrderTrees ==
  TripleJoins
  \cup {join(l, r, kp[1], kp[2]) : l \in OrderLefts, r \in RightOperands, kp \in KeyPairs}
  \cup {filter(r, p) : r \in FilterSources, p \in FilterPreds}
  \cup {unify(r, "u", e, m, SpanUnify) :
          r \in FilterSources, e \in UnifyExprs, m \in BOOLEAN}

InitOrder ==
  /\ ra \in OrderTrees
  /\ nops = 1
  /\ phase = "build"
  /\ used = {}
  /\ epoch = NoEpoch
  /\ use_delta = {}
  /\ out = <<>>
  /\ cfg_debug_assertions \in BOOLEAN

NextOrder ==
  \/ Eliminate
  \/ Fill
  \/ Iter

SpecOrder == InitOrder /\ [][NextOrder]_vars

\* The child whose tuples drive the node: the parent of a Filter or
\* Unification, the left child of a join
DrivingChild(n) == IF n.t = "Join" THEN n.left ELSE n.parent

\* The node n with its driving child replaced by a relation that yields the
\* one tuple l under the same bindings
DrivenBy(n, l) ==
  LET one == fixed(bindings_after_eliminate(DrivingChild(n), cfg_debug_assertions).ret, <<l>>)
  IN IF n.t = "Join" THEN [n EXCEPT !.left = one] ELSE [n EXCEPT !.parent = one]

\* The tuples the node n produces for the tuple l of its driving child
ProducedFor(n, l, ep, delta) == OkSeq(iter(DrivenBy(n, l), ep, delta, cfg_debug_assertions))

\* C19: Filter and Unification emit their outputs in the order of their
\* child's tuples (spread elements in list order), and every InnerJoin
\* execution path emits left-major: the output is the outputs produced for
\* the first tuple of the driving child, then those produced for the second,
\* and so on.
C19_OutputFollowsDrivingChild ==
  (/\ phase = "iter"
   /\ ra.t \in {"Filter", "Unification", "Join"}
   /\ \A i \in 1..Len(out) : out[i].k # "panic") =>
    LET ls == OkSeq(iter(DrivingChild(ra), epoch, use_delta, cfg_debug_assertions))
    IN /\ OkSeq(out)
            = Flatten([i \in 1..Len(ls) |-> ProducedFor(ra, ls[i], epoch, use_delta)])
       /\ ra.t = "Filter" => \A i \in 1..Len(ls) :
            Len(ProducedFor(ra, ls[i], epoch, use_delta)) <= 1
       /\ ra.t = "Unification" => \A i \in 1..Len(ls) :
            ProducedFor(ra, ls[i], epoch, use_delta) = OkSeq(UnificationOwes(ra, ls[i]))

\* A materialized join that has been drained, in which an earlier left
\* tuple produced two outputs and a later left tuple produced one whose
\* stored right row sorts before a row the earlier one matched
C19_MaterializedJoinLeftMajor ==
  /\ phase = "iter"
  /\ ra.t = "Join"
  /\ ra.right.t \in {"Filter", "Unification"}
  /\ ra.to_eliminate = {}
  /\ \A i \in 1..Len(out) : out[i].k = "ok"
  /\ LET ls == OkSeq(iter(ra.left, epoch, use_delta, cfg_debug_assertions))
     IN \E i, k \in 1..Len(ls) :
          /\ i < k
          /\ Len(ProducedFor(ra, ls[i], epoch, use_delta)) >= 2
          /\ Len(ProducedFor(ra, ls[k], epoch, use_delta)) >= 1

-----------------------------------------------------------------------------
(* Range pushdown: joins whose right operand is scanned with no bound      *)
(* column or by a key prefix, with filters pushed into the right operand,  *)
(* through the lifecycle.                                                  *)

RangeRights ==
  {triple(attr, Vld, "a", "b", SpanTriple) : attr \in Attrs}
  \cup {derived(<<"a", "b">>, StoreS), relation(<<"a", "b">>, StoreS)}
RangeKeyPairs == {<< <<>>, <<>> >>, << <<"x">>, <<"a">> >>}
RangeTrees ==
  {join(l, r, kp[1], kp[2]) : l \in OrderLefts, r \in RangeRights, kp \in RangeKeyPairs}

InitRange ==
  /\ ra \in RangeTrees
  /\ nops = 1
  /\ phase = "build"
  /\ used = {}
  /\ epoch = NoEpoch
  /\ use_delta = {}
  /\ out = <<>>
  /\ cfg_debug_assertions \in BOOLEAN

NextRange ==
  \/ PushFilter
  \/ Eliminate
  \/ Fill
  \/ Iter

SpecRange == InitRange /\ [][NextRange]_vars

\* The join j served with the unbounded scan for every left tuple, followed
\* by the filters of the right operand and the elimination: triple_a_scan in
\* the cartesian join, triple_ae_scan in the entity-bound join and
\* scan_prefix in the prefix join (the _before_ and _for_epoch variants as
\* the node requires)
UnboundedJoin(j, ep, delta) ==
  LET r == j.right
      ji == join_indices(j, bindings_after_eliminate(j.left, cfg_debug_assertions).ret,
                         bindings_after_eliminate(j.right, cfg_debug_assertions).ret)
      elim == get_eliminate_indices(join_bindings_ret(j), j.to_eliminate)
      left_iter == iter(j.left, ep, delta, cfg_debug_assertions)
      unbounded == [panic |-> FALSE, failed |-> FALSE, some |-> FALSE, l |-> Null, u |-> Bot]
      whole(tuple) ==
        IF r.attr.with_history THEN ExtendEV(tuple, triple_a_before_scan(r.attr, r.vld))
        ELSE ExtendEV(tuple, triple_a_scan(r.attr))
      se == IF r.t = "Derived" THEN scan_epoch(r, ep, delta) ELSE 0
  IN CASE r.t = "Triple" /\ ji.r = <<>> ->
            return_filtered_iter(r, FlatMapOk(left_iter, whole), elim)
       [] r.t = "Triple" ->
            return_filtered_iter(
              r, FlatMapOk(left_iter, LAMBDA t : e_join_one(r, t, ji.l[1], unbounded)), elim)
       [] r.t = "Derived" /\ derived_is_empty_delta(r, ep, delta) -> <<>>
       [] OTHER ->
            prefix_join_finish(
              r, CutPanic(prefix_join_scan(r, left_iter, left_to_prefix_indices(ji.l, ji.r),
                                           ji.r, TRUE, se)),
              elim)

\* A join served by TripleRA::cartesian_join, TripleRA::e_join or a prefix
\* join of a Stored or Derived right operand
RangeJoin(j) ==
  /\ j.t = "Join"
  /\ \/ CartesianOrEntityJoin(j)
     \/ /\ j.right.t \in {"Derived", "Relation"}
        /\ j.right_keys \in {<<>>, <<j.right.bindings[1]>>}

\* C20: range pushdown never changes results: for the Triple cartesian and
\* entity-bound joins and for the Stored and Derived prefix joins, the output
\* multiset with bounded scans and the skip flag is the same as the output
\* obtained when every left tuple uses the unbounded scan followed by the
\* node's filters.
C20_RangePushdownKeepsResults ==
  (phase = "iter" /\ RangeJoin(ra)) =>
    SameMultiset(OkSeq(out), OkSeq(UnboundedJoin(ra, epoch, use_delta)))

\* Whether the bound computation of the entity-bound join fails on some left
\* tuple: eval_bound returns an error, and the unwrap panics
BoundComputationFails(j, ep, delta) ==
  /\ j.right.t = "Triple"
  /\ j.right_keys # <<>>
  /\ \E l \in OkTuples(iter(j.left, ep, delta, cfg_debug_assertions)) : e_join_bounds(j.right, l,
      FALSE).panic

\* Range pushdown keeps the results, items in error included, wherever the
\* bound computation of the entity-bound join does not fail
RangePushdownKeepsResultsUnlessBoundFails ==
  (phase = "iter" /\ RangeJoin(ra) /\ ~BoundComputationFails(ra, epoch, use_delta)) =>
    /\ SameMultiset(OkSeq(out), OkSeq(UnboundedJoin(ra, epoch, use_delta)))
    /\ SameMultiset(out, UnboundedJoin(ra, epoch, use_delta))

-----------------------------------------------------------------------------
(* Elimination on its own: every operator that has a to_eliminate set, one *)
(* and two levels deep, through the lifecycle.                             *)

ElimTrees ==
  OrderTrees \cup KeyInner \cup KeyOuter \cup NegOnce
  \cup LeftLeaves
  \cup {reorder(r, <<"y", "x">>) : r \in LeftLeaves \ {unit}}
  \cup {filter(j, Cmp("gt", Var("y"), Const(Int_(1)))) : j \in KeyInner}
  \cup {unify(j, "u", Val(Var("y")), FALSE, SpanUnify) : j \in KeyInner}
  \cup {filter(filter(r, p), q) : r \in FilterSources, p, q \in FilterPreds}

InitElim ==
  /\ ra \in ElimTrees
  /\ nops = 2
  /\ phase = "build"
  /\ used = {}
  /\ epoch = NoEpoch
  /\ use_delta = {}
  /\ out = <<>>
  /\ cfg_debug_assertions \in BOOLEAN

NextElim ==
  \/ Eliminate
  \/ Fill
  \/ Iter

SpecElim == InitElim /\ [][NextElim]_vars

-----------------------------------------------------------------------------
(* The materialized join: right operands that InnerJoin::iter hands to     *)
(* materialized_join, with rows that repeat and rows in error, under key   *)
(* lists in every order, through the lifecycle.                            *)

\* Right operands over [a, b, u] that are always materialized: a
\* Unification, a Filter and an InnerJoin over stored rows
MatUnified == unify(relation(<<"a", "b">>, StoreS), "u", Val(Var("a")), FALSE, SpanUnify)
MatWideRights ==
  {MatUnified, filter(MatUnified, Cmp("gt", Var("u"), Const(Int_(0)))),
   join(relation(<<"a", "b">>, StoreS), relation(<<"u", "w">>, StoreR), <<"a">>, <<"u">>)}
MatWideKeyPairs ==
  {<< <<>>, <<>> >>, << <<"x">>, <<"a">> >>, << <<"x">>, <<"u">> >>,
   << <<"x", "y">>, <<"u", "a">> >>, << <<"y", "x">>, <<"b", "u">> >>,
   << <<"x", "x">>, <<"a", "u">> >>}

\* Filters over [a, b]: one over rows that all pass, one over the relation
\* T, on whose rows with a list the predicate is in error
MatFiltered ==
  {filter(relation(<<"a", "b">>, StoreS), Cmp("gt", Var("b"), Const(Int_(0)))),
   filter(relation(<<"a", "b">>, StoreT), Cmp("gt", Var("b"), Const(Int_(1))))}

\* Stored and Derived right operands joined on their second column only
MatStoreRights == {derived(<<"a", "b">>, StoreS), relation(<<"a", "b">>, StoreS)}
MatStoreKeyPairs == {<< <<"x">>, <<"b">> >>, << <<"y">>, <<"b">> >>}

MatLefts == {fixed(<<"x", "y">>, DataXY), relation(<<"x", "y">>, StoreS)}

MatTrees ==
  {join(l, r, kp[1], kp[2]) : l \in MatLefts, r \in MatWideRights, kp \in MatWideKeyPairs}
  \cup {join(l, r, kp[1], kp[2]) : l \in MatLefts, r \in MatFiltered, kp \in KeyPairs}
  \cup {join(l, r, kp[1], kp[2]) : l \in MatLefts, r \in MatStoreRights,
                                   kp \in MatStoreKeyPairs}

InitMat ==
  /\ ra \in MatTrees
  /\ nops = 1
  /\ phase = "build"
  /\ used = {}
  /\ epoch = NoEpoch
  /\ use_delta = {}
  /\ out = <<>>
  /\ cfg_debug_assertions \in BOOLEAN

NextMat ==
  \/ Eliminate
  \/ Fill
  \/ Iter

SpecMat == InitMat /\ [][NextMat]_vars

\* The right tuples among rs that equal the left tuple l on every pair of
\* join columns of j, in the order of rs
RightAgreeing(j, l, rs) ==
  LET ji == join_indices(j, bindings_after_eliminate(j.left, cfg_debug_assertions).ret,
                         bindings_after_eliminate(j.right, cfg_debug_assertions).ret)
  IN SelectSeq(rs, LAMBDA r : \A k \in 1..Len(ji.l) : l[ji.l[k] + 1] = r[ji.r[k] + 1])

\* The reference equi-join of two sequences of tuples under the keys of j:
\* for each l of ls and each agreeing r of rs, l ++ r less the join's
\* eliminate indices
EquiJoin(j, ls, rs) ==
  LET elim == get_eliminate_indices(join_bindings_ret(j), j.to_eliminate)
      one(l) == [i \in 1..Len(RightAgreeing(j, l, rs)) |->
                   eliminate_from_tuple(l \o RightAgreeing(j, l, rs)[i], elim)]
  IN Flatten([i \in 1..Len(ls) |-> one(ls[i])])

\* A right tuple stored with the key columns first, and read back through
\* the inverse permutation
StoredThenRestored(j, r) ==
  LET ji == join_indices(j, bindings_after_eliminate(j.left, cfg_debug_assertions).ret,
                         bindings_after_eliminate(j.right, cfg_debug_assertions).ret)
      rsi == right_store_indices(ji.r, Len(bindings_after_eliminate(j.right,
          cfg_debug_assertions).ret))
      restore == right_invert_positions(rsi)
      stored == [i \in 1..Len(rsi) |-> r[rsi[i] + 1]]
  IN [i \in 1..Len(restore) |-> stored[restore[i] + 1]]

\* C21: the materialized join equals the reference equi-join and restores
\* the right layout: it emits, for each left tuple l and each right tuple r
\* equal to l on every join column pair, l ++ r with r's columns in their
\* original order less the join's eliminate indices, and nothing else;
\* storing the key columns first and applying the inverse permutation is a
\* round trip on r.
C21_MaterializedJoinIsEquiJoin ==
  (phase = "iter" /\ ra.t = "Join" /\ IsMaterialized(ra)) =>
    LET ls == OkSeq(iter(ra.left, epoch, use_delta, cfg_debug_assertions))
        rs == OkSeq(iter(ra.right, epoch, use_delta, cfg_debug_assertions))
    IN /\ SameMultiset(OkSeq(out), EquiJoin(ra, ls, rs))
       /\ \A n \in 1..Len(rs) : StoredThenRestored(ra, rs[n]) = rs[n]

\* When the right stream yields no error, the materialized
\* join emits for each left tuple l and each distinct right tuple r equal to
\* l on every join column pair, once, l ++ r with r's columns in their
\* original order less the join's eliminate indices, and no other tuple; a
\* right tuple yielded several times is joined once; the key-first store and
\* the inverse permutation are a round trip on r.  When the right stream
\* yields an error the output is that error alone.
MaterializedJoinIsEquiJoinOfDistinctRows ==
  (phase = "iter" /\ ra.t = "Join" /\ IsMaterialized(ra)) =>
    LET ls == OkSeq(iter(ra.left, epoch, use_delta, cfg_debug_assertions))
        right_iter == iter(ra.right, epoch, use_delta, cfg_debug_assertions)
        rs == OkSeq(right_iter)
        bad == {n \in 1..Len(right_iter) : right_iter[n].k # "ok"}
    IN /\ \A n \in 1..Len(rs) : StoredThenRestored(ra, rs[n]) = rs[n]
       /\ bad = {} => SameMultiset(OkSeq(out), EquiJoin(ra, ls, SortTuples(Range(rs))))
       /\ bad # {} => out = <<right_iter[CHOOSE n \in bad : \A m \in bad : n <= m]>>

-----------------------------------------------------------------------------
(* Errors of the right side of a join: a right stream in error under the   *)
(* materialized join, and an attribute scan in error under the             *)
(* unindexed-value Triple join, with left operands whose own streams hold  *)
(* errors and panics.                                                      *)

\* The error a storage scan yields in place of an element it cannot read
StorageError == <<"storage">>

\* An attribute without history, not a reference and not indexed, with
\* history
AttrPlainHist == Attr(11, TRUE, FALSE, FALSE)

\* Left operands: stored rows, a spread Unification that is in error on the
\* rows without a list, and a join whose bound computation panics on the
\* first row
AbortLefts ==
  {relation(<<"x", "y">>, StoreT),
   unify(relation(<<"x", "y">>, StoreT), "u", Val(Var("y")), TRUE, SpanUnify),
   push_filter(join(relation(<<"x", "y">>, StoreT),
                    triple(AttrPlain, Vld, "c", "d", SpanTriple), <<"x">>, <<"c">>),
               Cmp("gt", Var("y"), Const(Int_(1))))}

\* Right operands served by the materialized join: two whose stream holds
\* errors, one whose stream holds none
AbortMaterialized ==
  MatFiltered
  \cup {unify(relation(<<"a", "b">>, StoreT), "w", Val(Var("b")), TRUE, SpanUnify)}
\* Right operands served by v_no_index_join when joined on the value
AbortTriples == {triple(attr, Vld, "a", "b", SpanTriple) : attr \in {AttrPlain, AttrPlainHist}}
AbortKeyPairs == {<< <<"x">>, <<"b">> >>, << <<"y">>, <<"b">> >>}

AbortTrees ==
  {join(l, r, kp[1], kp[2]) :
     l \in AbortLefts, r \in AbortMaterialized \cup AbortTriples, kp \in AbortKeyPairs}

InitAbort ==
  /\ ra \in AbortTrees
  /\ nops = 1
  /\ phase = "build"
  /\ used = {}
  /\ epoch = NoEpoch
  /\ use_delta = {}
  /\ out = <<>>
  /\ cfg_debug_assertions \in BOOLEAN

\* The items of a scan whose k-th element cannot be read
FailAt(scan, k) ==
  [i \in 1..Len(scan) |-> IF i = k THEN Err(StorageError) ELSE Ok(scan[i])]

\* Whether TripleRA::join serves the join j by v_no_index_join
IsUnindexedValueJoin(j) ==
  /\ j.t = "Join" /\ j.right.t = "Triple"
  /\ j.right_keys = <<j.right.bindings[2]>>
  /\ ~j.right.attr.is_ref /\ ~j.right.attr.should_index

\* The attribute scan that v_no_index_join reads
AttributeScan(r) ==
  IF r.attr.with_history THEN triple_a_before_scan(r.attr, r.vld) ELSE triple_a_scan(r.attr)

\* InnerJoin::iter for a Triple right operand served by v_no_index_join, when
\* the attribute scan yields an error in place of its k-th element.  The
\* bindings are read, the join indices unwrapped and the left iterator built
\* (left is what that call gave) before v_no_index_join reads the scan
v_no_index_join_failing(j, k, left, debug_assertions) ==
  LET failing(bindings, ji) ==
        IF bindings.panic \/ ji.panic \/ left.panic THEN <<Panic>>
        ELSE v_no_index_join_over(j.right, FailAt(AttributeScan(j.right), k), left.items,
                                  ji.l[1], get_eliminate_indices(bindings.ret, j.to_eliminate))
  IN failing(join_bindings(j, debug_assertions),
             join_indices(j, bindings_after_eliminate(j.left, debug_assertions).ret,
                          bindings_after_eliminate(j.right, debug_assertions).ret))

\* RelAlgebra::iter called on the root and the iterator drained, while the
\* attribute scan of the unindexed-value join fails at one of its elements
IterScanFailing ==
  /\ phase = "filled"
  /\ IsUnindexedValueJoin(ra)
  /\ \E k \in 1..Len(AttributeScan(ra.right)) :
       out' = v_no_index_join_failing(
                ra, k, iter_call(ra.left, NoEpoch, {}, cfg_debug_assertions),
                cfg_debug_assertions)
  /\ phase' = "scan_failed"
  /\ UNCHANGED <<ra, nops, used, epoch, use_delta, cfg_debug_assertions>>

NextAbort ==
  \/ Eliminate
  \/ Fill
  \/ Iter
  \/ IterScanFailing

SpecAbort == InitAbort /\ [][NextAbort]_vars

\* The first item of a stream that is not a tuple
FirstNotOk(items) ==
  items[CHOOSE n \in 1..Len(items) :
          items[n].k # "ok" /\ \A m \in 1..(n - 1) : items[m].k = "ok"]

\* Left streams that tell when they are pulled: the left operand's own, one
\* that panics at the first pull and one that yields an error
ProbeStreams(j) ==
  {iter(j.left, epoch, use_delta, cfg_debug_assertions), <<Panic>>, <<Err(ErrEval)>>, <<>>}

\* C22: when the right stream of a materialized join, or the attribute scan
\* that fills the temp index of the unindexed-value Triple join, yields an
\* error, the join's output is exactly one item, that error, and the left
\* input is never iterated: the output is the same whatever the left stream
\* would yield.
C22_RightErrorIsTheOnlyItem ==
  /\ (phase = "iter" /\ ra.t = "Join" /\ IsMaterialized(ra)
        /\ \E n \in 1..Len(iter(ra.right, epoch, use_delta, cfg_debug_assertions)) :
             iter(ra.right, epoch, use_delta, cfg_debug_assertions)[n].k = "err") =>
       LET right_iter == iter(ra.right, epoch, use_delta, cfg_debug_assertions)
           elim == get_eliminate_indices(join_bindings_ret(ra), ra.to_eliminate)
       IN /\ FirstNotOk(right_iter).k = "err"
          /\ out = <<FirstNotOk(right_iter)>>
          /\ \A left_iter \in ProbeStreams(ra) :
               materialized_join(ra, right_iter, left_iter, elim, cfg_debug_assertions) = out
  /\ phase = "scan_failed" =>
       /\ out = <<Err(StorageError)>>
       /\ \A left_iter \in ProbeStreams(ra) : \A k \in 1..Len(AttributeScan(ra.right)) :
            v_no_index_join_failing(ra, k, Returned(left_iter), cfg_debug_assertions) = out

\* The unindexed-value join has run over a failing attribute scan with a
\* left operand whose own stream holds an error or a panic
C22_ScanErrorBeforeFailingLeft ==
  /\ phase = "scan_failed"
  /\ \E n \in 1..Len(iter(ra.left, epoch, use_delta, cfg_debug_assertions)) :
       iter(ra.left, epoch, use_delta, cfg_debug_assertions)[n].k # "ok"
  /\ Len(out) = 1
  /\ out[1].k = "err"

-----------------------------------------------------------------------------
(* The prefix join: Stored and Derived right operands joined on key lists  *)
(* in every order, some a permutation of the leading columns and some not, *)
(* with filters pushed into the Derived operand, through the lifecycle.    *)

PrefixLefts == {fixed(<<"x", "y">>, DataXY), relation(<<"x", "y">>, StoreS)}

\* Key lists onto the three columns [a, b, c] of the stored relation W
PrefixWideKeyPairs ==
  {<< <<>>, <<>> >>, << <<"x">>, <<"a">> >>, << <<"x", "y">>, <<"a", "b">> >>,
   << <<"y", "x">>, <<"b", "a">> >>, << <<"x", "y", "x">>, <<"a", "b", "c">> >>,
   << <<"x", "y", "y">>, <<"c", "a", "b">> >>, << <<"y", "x", "x">>, <<"b", "c", "a">> >>,
   << <<"x">>, <<"b">> >>, << <<"x">>, <<"c">> >>, << <<"x", "y">>, <<"a", "c">> >>,
   << <<"y", "x">>, <<"c", "b">> >>}

PrefixTrees ==
  {join(l, relation(<<"a", "b", "c">>, StoreW), kp[1], kp[2]) :
     l \in PrefixLefts, kp \in PrefixWideKeyPairs}
  \cup {join(l, derived(<<"a", "b">>, StoreS), kp[1], kp[2]) :
          l \in PrefixLefts, kp \in KeyPairs}

InitPrefix ==
  /\ ra \in PrefixTrees
  /\ nops = 1
  /\ phase = "build"
  /\ used = {}
  /\ epoch = NoEpoch
  /\ use_delta = {}
  /\ out = <<>>
  /\ cfg_debug_assertions \in BOOLEAN

NextPrefix ==
  \/ PushFilter
  \/ Eliminate
  \/ Fill
  \/ Iter

SpecPrefix == InitPrefix /\ [][NextPrefix]_vars

\* Whether a list of right join indices, put in ascending order, is 0..k-1
SortedIsLeading(rji) ==
  /\ Range(rji) = 0..(Len(rji) - 1)
  /\ \A i, n \in 1..Len(rji) : rji[i] = rji[n] => i = n

\* The rows that the right operand of j holds for a scan at (ep, delta)
StoredRows(j, ep, delta) ==
  IF j.right.t = "Derived" THEN RowsAtScanEpoch(j.right, ep, delta)
  ELSE RelationRows(j.right.storage)

\* C23: for a Stored or Derived right operand the prefix join is chosen
\* exactly when the sorted right_join_indices equal 0..k; then, for every
\* ordering of the keys, the prefix built for a left tuple has at each
\* position j < k the left value whose join partner is right column j, and
\* the output is the reference equi-join of the left stream with the stored
\* rows; otherwise the join is the materialized join.
C23_PrefixJoinOnLeadingColumns ==
  (phase = "iter" /\ ra.t = "Join" /\ ra.right.t \in {"Derived", "Relation"}) =>
    LET ji == join_indices(ra, bindings_after_eliminate(ra.left, cfg_debug_assertions).ret,
                           bindings_after_eliminate(ra.right, cfg_debug_assertions).ret)
        elim == get_eliminate_indices(join_bindings_ret(ra), ra.to_eliminate)
        left_iter == iter(ra.left, epoch, use_delta, cfg_debug_assertions)
        l2p == left_to_prefix_indices(ji.l, ji.r)
    IN /\ IsMaterialized(ra) <=> ~SortedIsLeading(ji.r)
       /\ ~SortedIsLeading(ji.r) =>
            out = materialized_join(ra, iter(ra.right, epoch, use_delta, cfg_debug_assertions),
                left_iter, elim, cfg_debug_assertions)
       /\ SortedIsLeading(ji.r) =>
            /\ Len(l2p) = Len(ji.r)
            /\ \A i \in 1..Len(ji.r) : l2p[ji.r[i] + 1] = ji.l[i]
            /\ out = IF ra.right.t = "Derived"
                     THEN derived_prefix_join(ra.right, left_iter, ji.l, ji.r, elim,
                                              epoch, use_delta)
                     ELSE relation_prefix_join(ra.right, left_iter, ji.l, ji.r, elim)
            /\ OkSeq(out) = JoinWithRows(ra, epoch, use_delta,
                                         StoredRows(ra, epoch, use_delta))

\* A prefix join has run whose keys were given in another order than the
\* right columns, and it emitted tuples for some left tuple but not for all
C23_PermutedKeysServedByPrefix ==
  /\ phase = "iter" /\ ra.t = "Join" /\ ra.right.t = "Relation"
  /\ ra.right_keys = <<"b", "c", "a">>
  /\ ~IsMaterialized(ra)
  /\ OkSeq(out) # <<>>
  /\ Len(OkSeq(out)[1]) = 4
  /\ Len(OkSeq(out)) < Len(OkSeq(iter(ra.left, epoch, use_delta, cfg_debug_assertions)))

-----------------------------------------------------------------------------
(* Negative joins with a Stored or Derived right operand, on key lists     *)
(* that are a full prefix of the right columns, a partial prefix or no     *)
(* prefix, in every order, through the lifecycle.                          *)

NegStoreTrees ==
  {neg_join(l, relation(<<"a", "b", "c">>, StoreW), kp[1], kp[2]) :
     l \in PrefixLefts, kp \in PrefixWideKeyPairs \ {<< <<>>, <<>> >>}}
  \cup {neg_join(l, derived(<<"a", "b">>, StoreS), kp[1], kp[2]) :
          l \in PrefixLefts, kp \in KeyPairs \ {<< <<>>, <<>> >>}}

InitNegStore ==
  /\ ra \in NegStoreTrees
  /\ nops = 1
  /\ phase = "build"
  /\ used = {}
  /\ epoch = NoEpoch
  /\ use_delta = {}
  /\ out = <<>>
  /\ cfg_debug_assertions \in BOOLEAN

NextNegStore ==
  \/ Eliminate
  \/ Fill
  \/ Iter

SpecNegStore == InitNegStore /\ [][NextNegStore]_vars

\* The rows a negative join reads from its right operand: the stored
\* relation, or the accumulated relation of a derived store
NegStoredRows(j) ==
  IF j.right.t = "Derived" THEN DerivedRows(j.right.storage, 0)
  ELSE RelationRows(j.right.storage)

\* C24: for a NegJoin with a Stored or Derived right operand and
\* right_join_indices that are a full prefix, a partial prefix or no prefix
\* at all, a left tuple is dropped exactly when some stored row equals it on
\* every join column pair, and every such row starts with the prefix the
\* store is scanned with.
C24_NegJoinDropsIffRowAgrees ==
  (phase = "iter" /\ ra.t = "NegJoin" /\ ra.right.t \in {"Derived", "Relation"}) =>
    LET ji == join_indices(ra, bindings_after_eliminate(ra.left, cfg_debug_assertions).ret,
                           bindings_after_eliminate(ra.right, cfg_debug_assertions).ret)
        l2p == neg_left_to_prefix_indices(ji.l, ji.r)
        ls == OkSeq(iter(ra.left, epoch, use_delta, cfg_debug_assertions))
        rows == NegStoredRows(ra)
    IN /\ OkSeq(out) = NegJoinWithRows(ra, epoch, use_delta, rows)
       /\ Len(out) = Len(OkSeq(out))
       /\ \A n \in 1..Len(ls) : \A r \in Range(RowsAgreeing(ra, ls[n], rows)) :
            IsPrefix([i \in 1..Len(l2p) |-> ls[n][l2p[i] + 1]], r)

\* A negative join on a partial prefix (the first and the third right
\* column) has run, dropping some left tuple and letting another through
C24_PartialPrefixDropsSome ==
  /\ phase = "iter" /\ ra.t = "NegJoin" /\ ra.right.t = "Relation"
  /\ ra.right_keys = <<"a", "c">>
  /\ OkSeq(out) # <<>>
  /\ Len(OkSeq(out)) < Len(OkSeq(iter(ra.left, epoch, use_delta, cfg_debug_assertions)))

-----------------------------------------------------------------------------
(* InlineFixed as the right operand of a join, with no row, one row and    *)
(* several rows, under every key list, through the lifecycle.              *)

\* InlineFixed data over [a, b]: three rows, two of them with the same a
DataABMore == << <<Int_(1), Int_(2)>>, <<Int_(2), Int_(2)>>, <<Int_(1), Int_(1)>> >>

FixedRights ==
  {fixed(<<"a", "b">>, d) : d \in {<<>>, SubSeq(DataAB, 1, 1), DataAB, DataABMore}}

FixedJoinTrees ==
  {join(l, r, kp[1], kp[2]) : l \in PrefixLefts, r \in FixedRights, kp \in KeyPairs}

InitFixed ==
  /\ ra \in FixedJoinTrees
  /\ nops = 1
  /\ phase = "build"
  /\ used = {}
  /\ epoch = NoEpoch
  /\ use_delta = {}
  /\ out = <<>>
  /\ cfg_debug_assertions \in BOOLEAN

NextFixed ==
  \/ Eliminate
  \/ Fill
  \/ Iter

SpecFixed == InitFixed /\ [][NextFixed]_vars

\* The reference equi-join of the left tuples of j with the data rows of its
\* InlineFixed right operand: for each left tuple in order and each row, in
\* order, that equals it on every key column pair, left ++ row with only the
\* columns of the join's bindings_after_eliminate
FixedEquiJoin(j, ep, delta) ==
  LET lb == bindings_after_eliminate(j.left, cfg_debug_assertions).ret
      fb == j.right.bindings
      all == lb \o fb
      keep == Range(bindings_after_eliminate(j, cfg_debug_assertions).ret)
      drop == {i \in 0..(Len(all) - 1) : all[i + 1] \notin keep}
      ls == OkSeq(iter(j.left, ep, delta, cfg_debug_assertions))
      agree(l, row) ==
        \A k \in 1..Len(j.right_keys) :
          l[IndexOf(lb, j.left_keys[k]) + 1] = row[IndexOf(fb, j.right_keys[k]) + 1]
      one(l) ==
        LET rows == SelectSeq(j.right.data, LAMBDA row : agree(l, row))
        IN [i \in 1..Len(rows) |-> SelectIdx(l \o rows[i], 0, drop)]
  IN Flatten([i \in 1..Len(ls) |-> one(ls[i])])

\* C25: as the right operand of an InnerJoin, an InlineFixed relation with
\* no row, one row or several rows gives the output of the reference
\* equi-join: for each left tuple in order and each data row that equals it
\* on the key columns, one tuple left ++ row with the join's to_eliminate
\* columns removed, also when the InlineFixed's own to_eliminate is not
\* empty.
C25_FixedJoinIsEquiJoin ==
  (phase = "iter" /\ ra.t = "Join" /\ ra.right.t = "Fixed" /\ ra.left.t = "Relation") =>
    /\ Len(out) = Len(OkSeq(out))
    /\ OkSeq(out) = FixedEquiJoin(ra, epoch, use_delta)

\* The three strategies give the reference equi-join when neither the join
\* nor the InlineFixed node eliminates a column
FixedJoinIsEquiJoinWhenNothingEliminated ==
  (phase = "iter" /\ ra.t = "Join" /\ ra.right.t = "Fixed" /\ ra.left.t = "Relation"
     /\ ra.to_eliminate = {} /\ ra.right.to_eliminate = {}) =>
    /\ Len(out) = Len(OkSeq(out))
    /\ OkSeq(out) = FixedEquiJoin(ra, epoch, use_delta)

\* The strategy for no row and the strategy for one row give the reference
\* equi-join when the InlineFixed node itself eliminates no column
FixedJoinIsEquiJoinUpToOneRow ==
  (phase = "iter" /\ ra.t = "Join" /\ ra.right.t = "Fixed" /\ ra.left.t = "Relation"
     /\ Len(ra.right.data) <= 1 /\ ra.right.to_eliminate = {}) =>
    /\ Len(out) = Len(OkSeq(out))
    /\ OkSeq(out) = FixedEquiJoin(ra, epoch, use_delta)

-----------------------------------------------------------------------------
(* The skip flag of the prefix join, followed over the left stream.        *)

RECURSIVE prefix_join_steps(_, _, _, _)
\* The steps the closure of prefix_join takes for n left tuples in turn,
\* each with the flag it found: [before, computed, ranged, skip]
prefix_join_steps(r, rji, n, skip_range_check) ==
  IF n = 0 THEN <<>>
  ELSE LET step == prefix_join_step(r, rji, skip_range_check)
       IN <<[before |-> skip_range_check, computed |-> step.computed,
             ranged |-> step.ranged, skip |-> step.skip]>>
          \o prefix_join_steps(r, rji, n - 1, step.skip)

\* The steps of the prefix join j over the tuples of its left stream
PrefixJoinSteps(j, ep, delta) ==
  LET ji == join_indices(j, bindings_after_eliminate(j.left, cfg_debug_assertions).ret,
                         bindings_after_eliminate(j.right, cfg_debug_assertions).ret)
  IN prefix_join_steps(j.right, ji.r, Len(OkSeq(iter(j.left, ep, delta, cfg_debug_assertions))),
      FALSE)

\* Whether the join j is served by the prefix join and its stream is read
IsPrefixJoin(j, ep, delta) ==
  /\ j.t = "Join" /\ j.right.t \in {"Derived", "Relation"}
  /\ ~IsMaterialized(j)
  /\ ~(j.right.t = "Derived" /\ derived_is_empty_delta(j.right, ep, delta))

\* C26: in a Stored or Derived prefix join, once a left tuple has been
\* served by the unbounded prefix scan the skip flag stays set, bounds are
\* never computed again and every later left tuple of the stream is served
\* by the unbounded prefix scan.
C26_SkipFlagIsMonotone ==
  (phase = "iter" /\ IsPrefixJoin(ra, epoch, use_delta)) =>
    LET steps == PrefixJoinSteps(ra, epoch, use_delta)
    IN \A i, n \in 1..Len(steps) :
         (i < n /\ ~steps[i].ranged) =>
           /\ steps[i].skip
           /\ steps[n].before /\ steps[n].skip
           /\ ~steps[n].computed
           /\ ~steps[n].ranged

\* A prefix join with filters has served its first left tuple by the
\* unbounded scan, after computing bounds that were open, and has served
\* later left tuples
C26_OpenBoundsSetTheFlag ==
  /\ phase = "iter" /\ IsPrefixJoin(ra, epoch, use_delta)
  /\ ra.right.filters # <<>>
  /\ LET steps == PrefixJoinSteps(ra, epoch, use_delta)
     IN /\ Len(steps) >= 2
        /\ steps[1].computed /\ ~steps[1].ranged
        /\ ~steps[2].computed
  /\ OkSeq(out) # <<>>

-----------------------------------------------------------------------------
(* Failures of the bound computation in the entity-bound Triple join.      *)

\* Whether TripleRA::join serves the join j by e_join
IsEntityBoundJoin(j) ==
  /\ j.t = "Join" /\ j.right.t = "Triple"
  /\ j.right_keys = <<j.right.bindings[1]>>

\* C27: in the entity-bound Triple join a failure of the bound computation
\* for a left tuple is not surfaced as an error item or a panic: the tuple
\* is served by the unbounded ae scan, and no later left tuple of the stream
\* attempts bound computation again.  Read on the output of a stream with
\* such a failure: it holds no panic, and it holds every row that the
\* unbounded ae scan gives for a left tuple whose bound computation fails.
C27_BoundFailureFallsBack ==
  (phase = "iter" /\ IsEntityBoundJoin(ra) /\ BoundComputationFails(ra, epoch, use_delta)) =>
    LET ji == join_indices(ra, bindings_after_eliminate(ra.left, cfg_debug_assertions).ret,
                           bindings_after_eliminate(ra.right, cfg_debug_assertions).ret)
        elim == get_eliminate_indices(join_bindings_ret(ra), ra.to_eliminate)
        left_iter == iter(ra.left, epoch, use_delta, cfg_debug_assertions)
        unbounded == [panic |-> FALSE, failed |-> FALSE, some |-> FALSE, l |-> Null, u |-> Bot]
    IN /\ \A n \in 1..Len(out) : out[n].k # "panic"
       /\ \A n \in 1..Len(left_iter) :
            (left_iter[n].k = "ok" /\ e_join_bounds(ra.right, left_iter[n].t, FALSE).panic) =>
              LET served == return_filtered_iter(
                              ra.right,
                              e_join_one(ra.right, left_iter[n].t, ji.l[1], unbounded), elim)
              IN \A m \in 1..Len(served) : \E i \in 1..Len(out) : out[i] = served[m]

-----------------------------------------------------------------------------
(* The strategy table of the Triple joins.                                 *)

PlainScans ==
  {"triple_a_scan", "triple_ae_scan", "triple_ae_range_scan", "triple_av_scan",
   "triple_av_range_scan", "triple_vref_a_scan"}
BeforeScans ==
  {"triple_a_before_scan", "triple_ae_before_scan", "triple_ae_range_before_scan",
   "triple_av_before_scan", "triple_av_range_before_scan", "triple_vref_a_before_scan"}
\* The scans of the family that with_history selects
HistoryFamily(attr) == IF attr.with_history THEN BeforeScans ELSE PlainScans

\* The scans of the value-bound strategy that the table gives the attribute
ValueStrategyScans(attr) ==
  IF attr.is_ref THEN {"triple_vref_a_scan", "triple_vref_a_before_scan"}
  ELSE IF attr.should_index THEN {"triple_av_scan", "triple_av_before_scan"}
  ELSE {"triple_a_scan", "triple_a_before_scan"}

\* A join or negative join that binds the value column of its Triple right
\* operand and nothing else
IsValueBoundJoin(j) ==
  /\ j.t \in {"Join", "NegJoin"} /\ j.right.t = "Triple"
  /\ j.right_keys = <<j.right.bindings[2]>>

\* Whether the value-bound join or negative join j yields for the left tuple
\* l what its strategy owes: with a ref-typed attribute the EntityIdExpected
\* error for a value that is no entity id; else the reference join with the
\* triples visible at vld (for the attribute scan of an attribute that is
\* neither, whose tuples lack the value column, one tuple for every visible
\* triple that agrees)
ValueStrategyServes(j, l) ==
  LET ji == join_indices(j, bindings_after_eliminate(j.left, cfg_debug_assertions).ret,
      j.right.bindings)
      dv == l[ji.l[1] + 1]
  IN IF j.t = "NegJoin" THEN ServedAlone(j, l) = NegJoinOwes(j, l)
     ELSE IF j.right.attr.is_ref /\ get_entity_id(dv) = NoEntity
     THEN ServedAlone(j, l) = <<Err(EntityIdExpected(dv, j.right.span))>>
     ELSE IF j.right.attr.is_ref \/ j.right.attr.should_index
     THEN SameMultiset(OkSeq(ServedAlone(j, l)), ReferenceJoinOne(j, l))
     ELSE j.right.filters = <<>>
            => Len(ServedAlone(j, l)) = Len(AgreeingTriples(j, l))

\* C28 as stated: the physical strategy of a Triple join follows the strategy
\* table: with only the value column bound the choice is by priority the vref
\* scan for a ref-typed attribute (also when it is indexed), else the av scan
\* for an indexed attribute, else the full attribute scan; and in every
\* positive and negative strategy with_history = TRUE uses the _before_ scan
\* at vld while with_history = FALSE uses the plain scan.
C28_EveryStrategyScansByHistory ==
  (phase = "iter" /\ ra.t \in {"Join", "NegJoin"} /\ ra.right.t = "Triple") =>
    LET ji == join_indices(ra, bindings_after_eliminate(ra.left, cfg_debug_assertions).ret,
        ra.right.bindings)
    IN \A l \in OkTuples(iter(ra.left, epoch, use_delta, cfg_debug_assertions)) :
         LET calls == triple_storage_calls(ra.right, l, ji.l, ji.r, ra.t = "NegJoin")
         IN /\ calls \subseteq HistoryFamily(ra.right.attr)
            /\ IsValueBoundJoin(ra) =>
                 /\ calls \subseteq ValueStrategyScans(ra.right.attr)
                 /\ ValueStrategyServes(ra, l)

\* C28, amended: with only the value column bound the choice is by priority
\* the vref scan for a ref-typed attribute (also when it is indexed), else
\* the av scan for an indexed attribute, else the full attribute scan; in
\* every positive and negative strategy that scans (no column bound, the
\* entity bound, the value bound) with_history = TRUE uses the _before_ scan
\* at vld and with_history = FALSE the plain scan; the strategy with both
\* columns bound issues no scan: it calls aev_exists(a, e, v, vld) whatever
\* with_history is.
C28_ScanningStrategiesScanByHistory ==
  (phase = "iter" /\ ra.t \in {"Join", "NegJoin"} /\ ra.right.t = "Triple") =>
    LET ji == join_indices(ra, bindings_after_eliminate(ra.left, cfg_debug_assertions).ret,
        ra.right.bindings)
    IN \A l \in OkTuples(iter(ra.left, epoch, use_delta, cfg_debug_assertions)) :
         LET calls == triple_storage_calls(ra.right, l, ji.l, ji.r, ra.t = "NegJoin")
         IN /\ IF Len(ji.r) = 2 THEN calls \subseteq {"aev_exists"}
               ELSE calls \subseteq HistoryFamily(ra.right.attr)
            /\ IsValueBoundJoin(ra) =>
                 /\ calls \subseteq ValueStrategyScans(ra.right.attr)
                 /\ calls # {} \/ ra.right.attr.is_ref
                 /\ ValueStrategyServes(ra, l)

\* A join on the value of an attribute that is ref-typed, indexed and keeps
\* history, drained: the left value that is no entity id gave the error of
\* the vref strategy, and the triple visible at vld was joined while the one
\* asserted later was not
C28_RefBeforeIndexWithHistory ==
  /\ phase = "iter"
  /\ ra.t = "Join"
  /\ ra.right.t = "Triple"
  /\ ra.right.attr.is_ref /\ ra.right.attr.should_index /\ ra.right.attr.with_history
  /\ ra.left_keys = <<"x">>
  /\ ra.right_keys = <<"b">>
  /\ used = {"x", "y", "a", "b", "u"}
  /\ Err(EntityIdExpected(Null, ra.right.span)) \in Range(out)
  /\ Ok(<<Int_(2), List_(<<1, 2>>), Int_(2), Int_(2)>>) \in Range(out)
  /\ Ok(<<Int_(2), List_(<<1, 2>>), Int_(1), Int_(2)>>) \notin Range(out)

-----------------------------------------------------------------------------
(* Elimination and the consumer's symbols: a Reorder over joins, negative  *)
(* joins, filters and unifications, and these operators on their own,      *)
(* through the lifecycle.                                                  *)

KeepSymbols == {"x", "y", "a", "b", "u"}
KeepChildren ==
  KeyInner
  \cup {filter(j, Cmp("gt", Var("y"), Const(Int_(1)))) : j \in KeyInner}
  \cup {unify(j, "u", Val(Var("y")), FALSE, SpanUnify) : j \in KeyInner}
  \cup {fixed(<<"x", "y">>, DataXY)}
KeepOrders ==
  {<<"x">>, <<"y", "x">>, <<"b", "y">>, <<"u", "x">>, <<"b", "a", "y", "x">>}
KeepTrees ==
  KeepChildren
  \cup {t \in {reorder(c, o) : c \in KeepChildren, o \in KeepOrders} :
          Range(t.new_order)
            \subseteq Range(bindings_after_eliminate(t.relation, FALSE).ret)}

InitKeep ==
  /\ ra \in KeepTrees
  /\ nops = 2
  /\ phase = "build"
  /\ used = {}
  /\ epoch = NoEpoch
  /\ use_delta = {}
  /\ out = <<>>
  /\ cfg_debug_assertions \in BOOLEAN

NextKeep ==
  \/ Eliminate
  \/ Fill
  \/ Iter

SpecKeep == InitKeep /\ [][NextKeep]_vars

RECURSIVE before_elimination(_)
\* The tree as the construction helpers built it: every to_eliminate empty
before_elimination(r) ==
  CASE r.t = "Fixed" -> [r EXCEPT !.to_eliminate = {}]
    [] r.t \in {"Join", "NegJoin"} ->
         [r EXCEPT !.to_eliminate = {}, !.left = before_elimination(r.left),
                   !.right = before_elimination(r.right)]
    [] r.t \in {"Filter", "Unification"} ->
         [r EXCEPT !.to_eliminate = {}, !.parent = before_elimination(r.parent)]
    [] r.t = "Reorder" -> [r EXCEPT !.relation = before_elimination(r.relation)]
    [] OTHER -> r

\* Whether the symbols of u among the bindings of before are all among the
\* bindings of after
KeepsUsed(before, u, after) ==
  \A s \in u :
    s \in Range(bindings_after_eliminate(before,
        cfg_debug_assertions).ret) => s \in Range(bindings_after_eliminate(after,
            cfg_debug_assertions).ret)

\* C29: elimination never removes a symbol the consumer asked for: for any
\* node and any used, a symbol that is in used and in the node's
\* bindings_after_eliminate() before the call is still in its
\* bindings_after_eliminate() after eliminate_temp_vars(used), so a Reorder
\* whose new_order is a subset of used and of its child's bindings never
\* reaches the reorder indices mismatch panic.
C29_EliminationKeepsUsedSymbols ==
  /\ \A n \in Nodes(ra), u \in SUBSET KeepSymbols :
       KeepsUsed(n, u, eliminate_temp_vars(n, u, cfg_debug_assertions).r)
  /\ phase # "build" => KeepsUsed(before_elimination(ra), used, ra)
  /\ (/\ phase = "iter"
      /\ ra.t = "Reorder"
      /\ Range(ra.new_order) \subseteq used
      /\ Range(ra.new_order)
           \subseteq Range(bindings_after_eliminate(before_elimination(ra.relation),
               cfg_debug_assertions).ret))
       => /\ Range(ra.new_order) \subseteq Range(bindings_after_eliminate(ra.relation,
             cfg_debug_assertions).ret)
          /\ out = <<Panic>> => iter(ra.relation, epoch, use_delta,
              cfg_debug_assertions) = <<Panic>>

\* A Reorder over a join that eliminated columns, with a new_order within
\* used, drained: the first item is a reordered tuple
C29_ReorderOverEliminatingJoin ==
  /\ phase = "iter"
  /\ ra.t = "Reorder"
  /\ ra.new_order = <<"b", "y">>
  /\ used = {"y", "b"}
  /\ ra.relation.t = "Join"
  /\ ra.relation.left.t = "Relation"
  /\ ra.relation.right.t = "Relation"
  /\ ra.relation.to_eliminate = {"x", "a"}
  /\ out # <<>>
  /\ out[1].k = "ok"
  /\ Len(out[1].t) = 2

-----------------------------------------------------------------------------
(* The epoch subtraction of the Derived node.                              *)

\* DerivedRA::iter / DerivedRA::prefix_join: the values of scan_epoch that a
\* call with (ep, delta) computes: none after the early return
scan_epochs_evaluated(r, ep, delta) ==
  IF derived_is_empty_delta(r, ep, delta) THEN {} ELSE {scan_epoch(r, ep, delta)}

\* C30: the unsigned subtraction ep - 1 that computes scan_epoch in
\* DerivedRA::iter and DerivedRA::prefix_join is only evaluated with ep >= 1,
\* for every epoch and every use_delta, so scan_epoch never underflows.
C30_ScanEpochNeverUnderflows ==
  \A n \in Nodes(ra) :
    n.t = "Derived" =>
      /\ \A ep \in {NoEpoch} \cup 0..MaxEpoch, delta \in SUBSET {StoreR, StoreS} :
           \A se \in scan_epochs_evaluated(n, ep, delta) :
             /\ se # WrappedEpoch
             /\ se \in 0..MaxEpoch
             /\ (ep # NoEpoch /\ n.storage \in delta) => (ep >= 1 /\ se = ep - 1)
             /\ (ep = NoEpoch \/ n.storage \notin delta) => se = 0
      /\ phase = "iter" =>
           /\ scan_epochs_evaluated(n, epoch, use_delta) \subseteq 0..MaxEpoch
           /\ (epoch = 0 /\ n.storage \in use_delta)
                => scan_epochs_evaluated(n, epoch, use_delta) = {}

\* A Derived node whose store is in use_delta, scanned at epoch 2: the
\* subtraction gave epoch 1 and the scan returned the rows of that epoch
C30_ScannedAtEpochMinusOne ==
  /\ phase = "iter"
  /\ ra.t = "Derived"
  /\ epoch = 2
  /\ ra.storage \in use_delta
  /\ scan_epochs_evaluated(ra, epoch, use_delta) = {1}
  /\ ra.filters = <<>>
  /\ out # <<>>
  /\ Range(OkSeq(out)) = DerivedRows(ra.storage, 1)

====
